---- MODULE Spec2Model ----
(***************************************************************************)
(* Model of the SeaDataCloud task pipeline (mdantonio-c/seadatacloud):     *)
(* batch readiness, the ingestion task (download_batch), the promotion     *)
(* task (move_to_production_task) and the writers of the PID cache.        *)
(***************************************************************************)
EXTENDS Integers, Sequences, FiniteSets, TLC

VARIABLES
    production,   \* restapi.config.PRODUCTION, fixed for a deployment
    icoll,        \* the batch collection exists in the storage backend
    ifiles,       \* names listed in the batch collection
    ldir,         \* the local staging path of the batch exists
    lfiles,       \* names found in the local staging path
    bs,           \* last answer of the batch readiness evaluator
    dl,           \* the download_batch task (one run at a time)
    mp,           \* the move_to_production_task task
    cloud,        \* production collection: path -> "absent" | "file" | "meta"
    handles,      \* PIDs registered by the PID service: pid -> path | None
    cache,        \* redis: key -> value | None
    db,           \* DataObject rows: set of [uid, path]
    uo,           \* the unrestricted_order task and its order directory
    rt,           \* the download_restricted_order tasks of one order
    ostore,       \* the order collection in the storage backend
    dt,           \* the delete_batches / delete_orders task
    stage,        \* batch id -> its collection and its staging directory
    odirs,        \* order id -> its collection and its order directory
    tk            \* last answer of the order endpoints (links, download)

vars == <<production, icoll, ifiles, ldir, lfiles, bs, dl, mp, cloud,
          handles, cache, db, uo, rt, ostore, dt, stage, odirs, tk>>

None == "None"

(***************************************************************************)
(* Bounds                                                                  *)
(***************************************************************************)
MaxRuns == 2        \* runs of the ingestion task on the same batch
MaxEntries == 2     \* entries in the pids list of a promotion request
MaxPids == 2        \* pids in the request of an unrestricted order
MaxIds == 2         \* ids in the list of a deletion request
MaxSeeds == 2       \* seeds generated for one order
MaxTasks == 2       \* unrestricted_order tasks sent for one order

(***************************************************************************)
(* Batch states, seadata/endpoints/__init__.py                             *)
(***************************************************************************)
MISSING_BATCH == 0
NOT_FILLED_BATCH == 1
PARTIALLY_ENABLED_BATCH == 2
ENABLED_BATCH == 3
BATCH_MISCONFIGURATION == 4

BATCH_DQ_FOLDER_NAME == "original"

\* names that can appear in the batch collection (two data objects, one
\* sub-collection) and in the local staging directory
FileNames == {"batch.zip", "other.zip"}
INames == FileNames \cup {"subcoll"}
LDirs == {"batch", "other", BATCH_DQ_FOLDER_NAME}
LNames == FileNames \cup LDirs

is_file(n) == n \in FileNames

\* Path(...).stem of the archive name
stem(n) == IF n = "batch.zip" THEN "batch" ELSE "other"

(***************************************************************************)
(* Batch readiness evaluator, irods variant (EudatEndpoint)                *)
(***************************************************************************)
get_batch_status_fnum1_mut(coll, ilist, localExists, llist) ==
    IF ~coll THEN [status |-> MISSING_BATCH, files |-> {}]
    ELSE IF ~localExists THEN [status |-> MISSING_BATCH, files |-> {}]
    ELSE IF Cardinality(ilist) >= 1
         THEN [status |-> ENABLED_BATCH, files |-> ilist]
    ELSE LET files == {x \in llist : is_file(x)} IN
         IF Cardinality(files) <= 0
         THEN [status |-> NOT_FILLED_BATCH, files |-> files]
         ELSE [status |-> PARTIALLY_ENABLED_BATCH, files |-> files]

get_batch_status_glob_mut(coll, ilist, localExists, llist) ==
    IF ~coll THEN [status |-> MISSING_BATCH, files |-> {}]
    ELSE IF ~localExists THEN [status |-> MISSING_BATCH, files |-> {}]
    ELSE IF Cardinality(ilist) > 1
         THEN [status |-> BATCH_MISCONFIGURATION, files |-> ilist]
    ELSE IF Cardinality(ilist) = 1
         THEN [status |-> ENABLED_BATCH, files |-> ilist]
    ELSE IF Cardinality(llist) <= 0
         THEN [status |-> NOT_FILLED_BATCH, files |-> llist]
         ELSE [status |-> PARTIALLY_ENABLED_BATCH, files |-> llist]

get_batch_status(coll, ilist, localExists, llist) ==
    IF ~coll THEN [status |-> MISSING_BATCH, files |-> {}]
    ELSE IF ~localExists THEN [status |-> MISSING_BATCH, files |-> {}]
    ELSE IF Cardinality(ilist) > 1
         THEN [status |-> BATCH_MISCONFIGURATION, files |-> ilist]
    ELSE IF Cardinality(ilist) = 1
         THEN [status |-> ENABLED_BATCH, files |-> ilist]
    ELSE LET files == {x \in llist : is_file(x)} IN
         IF Cardinality(files) <= 0
         THEN [status |-> NOT_FILLED_BATCH, files |-> files]
         ELSE [status |-> PARTIALLY_ENABLED_BATCH, files |-> files]

(***************************************************************************)
(* Filesystem variant (SeaDataEndpoint): the staging directory is the      *)
(* storage backend; list() shows files and every directory but the DQ one. *)
(***************************************************************************)
fs_list(llist) == {x \in llist : is_file(x) \/ x # BATCH_DQ_FOLDER_NAME}

fs_get_batch_status(localExists, llist) ==
    IF ~localExists THEN [status |-> MISSING_BATCH, files |-> {}]
    ELSE LET fs_files == fs_list(llist) IN
         IF Cardinality(fs_files) > 1
         THEN [status |-> BATCH_MISCONFIGURATION, files |-> fs_files]
         ELSE IF Cardinality(fs_files) = 1
         THEN [status |-> ENABLED_BATCH, files |-> fs_files]
         ELSE IF fs_files = {}
         THEN [status |-> NOT_FILLED_BATCH, files |-> fs_files]
         ELSE [status |-> PARTIALLY_ENABLED_BATCH, files |-> fs_files]

NoAnswer == [variant |-> None]

(***************************************************************************)
(* ErrorCodes: the class body of seadata/endpoints/__init__.py, one pair   *)
(* per assignment in source order. A name assigned twice keeps the value   *)
(* of its last assignment, as a Python class body does.                    *)
(***************************************************************************)
ErrorCodesBody == <<
    <<"PID_NOT_FOUND", "41">>,
    <<"INGESTION_FILE_NOT_FOUND", "50">>,
    <<"MISSING_ZIPFILENAME_PARAM", "4000">>,
    <<"MISSING_FILENAME_PARAM", "4001">>,
    <<"MISSING_FILESIZE_PARAM", "4002">>,
    <<"INVALID_FILESIZE_PARAM", "4003">>,
    <<"MISSING_FILECOUNT_PARAM", "4004">>,
    <<"INVALID_FILECOUNT_PARAM", "4005">>,
    <<"FILENAME_DOESNT_EXIST", "4006">>,
    <<"CHECKSUM_DOESNT_MATCH", "4007">>,
    <<"FILESIZE_DOESNT_MATCH", "4008">>,
    <<"UNZIP_ERROR_FILE_NOT_FOUND", "4009">>,
    <<"UNZIP_ERROR_INVALID_FILE", "4010">>,
    <<"UNZIP_ERROR_WRONG_FILECOUNT", "4011">>,
    <<"B2SAFE_UPLOAD_ERROR", "4012">>,
    <<"UNZIP_ERROR_INVALID_FILE", "4013">>,
    <<"ORDER_NOT_FOUND", "4016">>,
    <<"BATCH_NOT_FOUND", "4017">>,
    <<"MISSING_PIDS_LIST", "4018">>,
    <<"UNABLE_TO_MOVE_IN_PRODUCTION", "4019">>,
    <<"UNABLE_TO_ASSIGN_PID", "4020">>,
    <<"B2HANDLE_ERROR", "4021">>,
    <<"UNABLE_TO_DOWNLOAD_FILE", "4022">>,
    <<"ZIP_SPLIT_ERROR", "4023">>,
    <<"ZIP_SPLIT_ENTRY_TOO_LARGE", "4024">>,
    <<"MISSING_BATCHES_PARAMETER", "4025">>,
    <<"MISSING_ORDERS_PARAMETER", "4026">>,
    <<"EMPTY_BATCHES_PARAMETER", "4027">>,
    <<"EMPTY_ORDERS_PARAMETER", "4028">>,
    <<"MISSING_CHECKSUM_PARAM", "4029">>,
    <<"INVALID_ZIPFILENAME_PARAM", "4030">>,
    <<"INVALID_CHECKSUM_PARAM", "4031">>,
    <<"INVALID_ZIPFILENAME_LENGTH", "4032">>,
    <<"INVALID_FILESIZE_LENGTH", "4033">>,
    <<"INVALID_FILECOUNT_LENGTH", "4034">>,
    <<"INVALID_CHECKSUM_LENGTH", "4035">>,
    <<"INVALID_FILENAME_PARAM", "4036">>,
    <<"MISSING_BATCH_NUMBER_PARAM", "4037">>,
    <<"UNREACHABLE_DOWNLOAD_PATH", "4039">>,
    <<"MISSING_ORDER_NUMBER_PARAM", "4040">>,
    <<"MISSING_DOWNLOAD_PATH_PARAM", "4041">>,
    <<"UNABLE_TO_CREATE_ZIP_FILE", "4042">>,
    <<"INVALID_ZIP_SPLIT_OUTPUT", "4043">>,
    <<"EMPTY_DOWNLOAD_PATH_PARAM", "4044">>,
    <<"UNEXPECTED_ERROR", "4045">>,
    <<"MISSING_REQUEST_ID", "4046">>,
    <<"UNABLE_TO_SET_METADATA", "4047">> >>

ErrorCodes(name) ==
    LET at == {i \in DOMAIN ErrorCodesBody : ErrorCodesBody[i][1] = name}
        last == CHOOSE i \in at : \A j \in at : j <= i
    IN ErrorCodesBody[last][2]

UNEXPECTED_ERROR == ErrorCodes("UNEXPECTED_ERROR")

\* values of the variables a specification does not use
IdleDl == [pc |-> "idle"]
IdleMp == [pc |-> "idle"]
IdleUo == [pc |-> "idle"]
IdleRt == [pc |-> "idle"]
IdleDt == [pc |-> "idle"]
NoLink == [op |-> None]
NoCloud == [p \in {} |-> None]

\* EudatEndpoint.get_batch_status applied to the current storage
GetBatchStatus ==
    /\ bs' = [variant |-> "irods",
              in |-> [coll |-> icoll, ilist |-> ifiles,
                      local |-> ldir, llist |-> lfiles],
              out |-> get_batch_status(icoll, ifiles, ldir, lfiles)]
    /\ UNCHANGED <<production, icoll, ifiles, ldir, lfiles, dl, mp, cloud,
                   handles, cache, db, uo, rt, ostore, dt, stage, odirs, tk>>

\* SeaDataEndpoint.get_batch_status applied to the staging directory
FsGetBatchStatus ==
    /\ bs' = [variant |-> "fs",
              in |-> [coll |-> ldir, ilist |-> fs_list(lfiles),
                      local |-> ldir, llist |-> lfiles],
              out |-> fs_get_batch_status(ldir, lfiles)]
    /\ UNCHANGED <<production, icoll, ifiles, ldir, lfiles, dl, mp, cloud,
                   handles, cache, db, uo, rt, ostore, dt, stage, odirs, tk>>

(***************************************************************************)
(* Outbound notification (ImportManagerAPI.post) and notify_error          *)
(***************************************************************************)
\* the backdoor flag is ignored
PostResults_backdoor_ignored_mut(backdoor) ==
    IF ~production THEN {"skipped"} ELSE {"ok", "non200", "raise"}

\* what a call of ext_api.post can do: nothing is sent with the backdoor or
\* outside production; otherwise requests.post answers 200, answers another
\* status, or raises (connection error, timeout)
PostResults(backdoor) ==
    IF backdoor \/ ~production THEN {"skipped"} ELSE {"ok", "non200", "raise"}

Sent(code, r) == IF r = "skipped" THEN <<>> ELSE <<[code |-> code, result |-> r]>>

\* notify_error(error, payload, backdoor, task) called by task record t.
\* inTry: the call sits inside the task's try block, whose handler calls
\* notify_error(UNEXPECTED_ERROR, ...) with the same backdoor flag.
\* The result is the set of task records the call can leave.
notify_error(t, code, backdoor, inTry) ==
    LET told == [t EXCEPT !.notified = Append(@, code),
                          !.reported = @ \cup {<<t.kind, code>>}]
        failed(u, c) == [u EXCEPT !.pc = "done", !.ret = "Failed",
                                  !.state = "FAILED", !.errors = <<c>>]
        escaped(u) == [u EXCEPT !.pc = "done", !.ret = "raised"]
        first ==
            {failed([told EXCEPT !.posts = @ \o Sent(code, r)], code) :
                 r \in PostResults(backdoor) \ {"raise"}}
        again ==
            LET u == [told EXCEPT !.posts = @ \o Sent(code, "raise"),
                                  !.notified = Append(@, UNEXPECTED_ERROR)]
            IN {IF r = "raise"
                THEN escaped([u EXCEPT !.posts = @ \o Sent(UNEXPECTED_ERROR, r)])
                ELSE failed([u EXCEPT !.posts = @ \o Sent(UNEXPECTED_ERROR, r)],
                            UNEXPECTED_ERROR) :
                    r \in PostResults(backdoor)}
        raised ==
            IF "raise" \notin PostResults(backdoor) THEN {}
            ELSE IF inTry THEN again
            ELSE {escaped([told EXCEPT !.posts = @ \o Sent(code, "raise")])}
    IN first \cup raised

(***************************************************************************)
(* Ingestion task: download_batch                                          *)
(***************************************************************************)
\* early returns of the parameter checks, in source order
ParamFaults == <<
    <<"params_not_dict", "MISSING_BATCHES_PARAMETER">>,
    <<"no_batch_number", "MISSING_BATCH_NUMBER_PARAM">>,
    <<"no_download_path", "MISSING_DOWNLOAD_PATH_PARAM">>,
    <<"empty_download_path", "EMPTY_DOWNLOAD_PATH_PARAM">>,
    <<"no_file_count", "MISSING_FILECOUNT_PARAM">>,
    <<"bad_file_count", "INVALID_FILECOUNT_PARAM">>,
    <<"no_file_name", "MISSING_FILENAME_PARAM">>,
    <<"no_file_size", "MISSING_FILESIZE_PARAM">>,
    <<"bad_file_size", "INVALID_FILESIZE_PARAM">>,
    <<"no_checksum", "MISSING_CHECKSUM_PARAM">> >>

FaultNames == {ParamFaults[i][1] : i \in DOMAIN ParamFaults}

param_error(fault) ==
    LET i == CHOOSE j \in DOMAIN ParamFaults : ParamFaults[j][1] = fault
    IN ErrorCodes(ParamFaults[i][2])

\* md5 hex digests of the downloaded bytes, and the checksums a request can
\* carry (the same digests, one of them in upper case)
Digests == {"a2b24", "0c9f1"}
Checksums == Digests \cup {"A2B24"}
lower(c) == IF c = "A2B24" THEN "a2b24" ELSE c

Sizes == {1, 2}
FileCounts == {1, 2}

Requests ==
    [fault : {"none"}, backdoor : BOOLEAN, file_name : FileNames,
     file_checksum : Checksums, file_size : Sizes, data_file_count : FileCounts]
    \cup
    {r \in [fault : FaultNames, backdoor : BOOLEAN, file_name : {"batch.zip"},
             file_checksum : {"a2b24"}, file_size : {1}, data_file_count : {1}] :
        \* the backdoor flag is a key of the parameters dict
        r.fault = "params_not_dict" => ~r.backdoor}

\* the failing verification step -> the error the task reports for it
verify_error_copied_mut(step) ==
    CASE step = "download" -> ErrorCodes("UNREACHABLE_DOWNLOAD_PATH")
      [] step = "checksum" -> ErrorCodes("CHECKSUM_DOESNT_MATCH")
      [] step = "size" -> ErrorCodes("CHECKSUM_DOESNT_MATCH")
      [] step = "not_found" -> ErrorCodes("UNZIP_ERROR_FILE_NOT_FOUND")
      [] step = "bad_zip" -> ErrorCodes("UNZIP_ERROR_INVALID_FILE")
      [] step = "count" -> ErrorCodes("UNZIP_ERROR_WRONG_FILECOUNT")

verify_error(step) ==
    CASE step = "download" -> ErrorCodes("UNREACHABLE_DOWNLOAD_PATH")
      [] step = "checksum" -> ErrorCodes("CHECKSUM_DOESNT_MATCH")
      [] step = "size" -> ErrorCodes("FILESIZE_DOESNT_MATCH")
      [] step = "not_found" -> ErrorCodes("UNZIP_ERROR_FILE_NOT_FOUND")
      [] step = "bad_zip" -> ErrorCodes("UNZIP_ERROR_INVALID_FILE")
      [] step = "count" -> ErrorCodes("UNZIP_ERROR_WRONG_FILECOUNT")

\* the comparisons of steps 2, 3 and 6
checksum_differs(local_file_checksum, file_checksum) ==
    lower(local_file_checksum) # lower(file_checksum)

size_differs_never_mut(local_file_size, file_size) == FALSE

size_differs(local_file_size, file_size) == local_file_size # file_size

count_differs_less_mut(local_file_count, file_count) ==
    local_file_count < file_count

count_differs(local_file_count, file_count) == local_file_count # file_count

\* nothing downloaded yet
NoContent == [md5 |-> None, size |-> 0]

\* reported: the errors handed to notify_error at the place of detection,
\* as the worker's error log keeps them over the runs
NewDl(runs, reported) ==
    [pc |-> "idle", runs |-> runs, req |-> None, content |-> NoContent,
     zip |-> None, extracted |-> 0, steps |-> <<>>, kind |-> None,
     ret |-> None, state |-> "PENDING", errors |-> <<>>, notified |-> <<>>,
     posts |-> <<>>, ifiles0 |-> {}, reported |-> reported]

StorageUnchanged == UNCHANGED <<icoll, ifiles, ldir, lfiles>>
OthersUnchangedDl ==
    UNCHANGED <<production, bs, mp, cloud, handles, cache, db, uo, rt, ostore,
                dt, stage, odirs, tk>>

\* the task is picked up by a worker with the request json
DlStart ==
    /\ dl.pc = "idle"
    /\ dl.runs < MaxRuns
    /\ \E req \in Requests :
          dl' = [NewDl(dl.runs + 1, dl.reported) EXCEPT !.pc = "params", !.req = req,
                                           !.ifiles0 = ifiles]
    /\ StorageUnchanged /\ OthersUnchangedDl

\* lines 40-140: parameter checks, outside the try block; the first one
\* reports with backdoor False
DlParams ==
    /\ dl.pc = "params"
    /\ IF dl.req.fault = "none"
       THEN dl' = [dl EXCEPT !.pc = "collection"]
       ELSE dl' \in notify_error([dl EXCEPT !.kind = "params"],
                                 param_error(dl.req.fault),
                                 IF dl.req.fault = "params_not_dict"
                                 THEN FALSE ELSE dl.req.backdoor,
                                 FALSE)
    /\ StorageUnchanged /\ OthersUnchangedDl

\* lines 142-151: open the storage backend, check the batch collection
DlCollection ==
    /\ dl.pc = "collection"
    /\ \E o \in {"ok", "exception"} :
          IF o = "exception"
          THEN dl' \in notify_error([dl EXCEPT !.kind = "unexpected"],
                                    UNEXPECTED_ERROR, dl.req.backdoor, FALSE)
          ELSE IF ~icoll
          THEN dl' \in notify_error([dl EXCEPT !.kind = "no_batch"],
                                    ErrorCodes("BATCH_NOT_FOUND"),
                                    dl.req.backdoor, TRUE)
          ELSE dl' = [dl EXCEPT !.pc = "download"]
    /\ StorageUnchanged /\ OthersUnchangedDl

DownloadResults == {"ok", "connection_error", "missing_schema", "not_200",
                    "other_exception", "write_exception"}

\* lines 153-201: GET the archive and write it into the staging directory
DlDownload ==
    /\ dl.pc = "download"
    /\ LET d == [dl EXCEPT !.steps = Append(@, "download")] IN
       \E o \in DownloadResults :
         CASE o \in {"connection_error", "missing_schema", "not_200"} ->
                /\ dl' \in notify_error([d EXCEPT !.kind = o],
                                        verify_error("download"),
                                        dl.req.backdoor, TRUE)
                /\ UNCHANGED lfiles
           [] o = "other_exception" ->
                /\ dl' \in notify_error([d EXCEPT !.kind = "unexpected"],
                                        UNEXPECTED_ERROR, dl.req.backdoor, FALSE)
                /\ UNCHANGED lfiles
           [] o = "write_exception" ->
                \* open() fails without the directory; a failing transfer
                \* leaves the bytes written so far
                /\ dl' \in notify_error([d EXCEPT !.kind = "unexpected"],
                                        UNEXPECTED_ERROR, dl.req.backdoor, FALSE)
                /\ lfiles' = IF ldir THEN lfiles \cup {dl.req.file_name} ELSE lfiles
           [] o = "ok" ->
                /\ ldir
                /\ \E md5 \in Digests, size \in Sizes :
                      dl' = [d EXCEPT !.pc = "checksum",
                                      !.content = [md5 |-> md5, size |-> size]]
                /\ lfiles' = lfiles \cup {dl.req.file_name}
    /\ UNCHANGED <<icoll, ifiles, ldir>> /\ OthersUnchangedDl

\* lines 203-216
DlChecksum ==
    /\ dl.pc = "checksum"
    /\ LET d == [dl EXCEPT !.steps = Append(@, "checksum")] IN
       IF checksum_differs(dl.content.md5, dl.req.file_checksum)
       THEN dl' \in notify_error([d EXCEPT !.kind = "checksum"],
                                 verify_error("checksum"), dl.req.backdoor, TRUE)
       ELSE dl' = [d EXCEPT !.pc = "size"]
    /\ StorageUnchanged /\ OthersUnchangedDl

\* lines 218-236
DlSize ==
    /\ dl.pc = "size"
    /\ LET d == [dl EXCEPT !.steps = Append(@, "size")] IN
       IF size_differs(dl.content.size, dl.req.file_size)
       THEN dl' \in notify_error([d EXCEPT !.kind = "size"],
                                 verify_error("size"), dl.req.backdoor, TRUE)
       ELSE dl' = [d EXCEPT !.pc = "decompress"]
    /\ StorageUnchanged /\ OthersUnchangedDl

ZipResults == {"ok", "not_found", "bad_zip", "extract_exception"}

\* lines 238-274: recreate the scratch directory and extract the archive
DlDecompress ==
    /\ dl.pc = "decompress"
    /\ lfiles' = lfiles \cup {stem(dl.req.file_name)}
    /\ LET d == [dl EXCEPT !.steps = Append(@, "decompress")] IN
       \E z \in ZipResults :
         CASE z \in {"not_found", "bad_zip"} ->
                dl' \in notify_error([d EXCEPT !.kind = z, !.zip = z],
                                     verify_error(z), dl.req.backdoor, TRUE)
           [] z = "extract_exception" ->
                dl' \in notify_error([d EXCEPT !.kind = "unexpected", !.zip = z],
                                     UNEXPECTED_ERROR, dl.req.backdoor, FALSE)
           [] z = "ok" ->
                \E n \in FileCounts :
                    dl' = [d EXCEPT !.pc = "count", !.zip = z, !.extracted = n]
    /\ UNCHANGED <<icoll, ifiles, ldir>> /\ OthersUnchangedDl

\* lines 276-294: count the extracted files, then remove the scratch directory
DlCount ==
    /\ dl.pc = "count"
    /\ LET d == [dl EXCEPT !.steps = Append(@, "count")] IN
       IF count_differs(dl.extracted, dl.req.data_file_count)
       THEN /\ dl' \in notify_error([d EXCEPT !.kind = "count"],
                                    verify_error("count"), dl.req.backdoor, TRUE)
            /\ UNCHANGED lfiles
       ELSE /\ dl' = [d EXCEPT !.pc = "put"]
            /\ lfiles' = lfiles \ {stem(dl.req.file_name)}
    /\ UNCHANGED <<icoll, ifiles, ldir>> /\ OthersUnchangedDl

PutResults == {"ok", "exception", "exception_partial"}

\* lines 296-322: commit the archive into the batch collection under a
\* time bound; a failing put may leave the object behind
DlPut ==
    /\ dl.pc = "put"
    /\ LET d == [dl EXCEPT !.steps = Append(@, "put")] IN
       \E o \in PutResults :
         CASE o = "ok" ->
                /\ dl' = [d EXCEPT !.pc = "notify"]
                /\ ifiles' = ifiles \cup {dl.req.file_name}
           [] o = "exception" ->
                /\ dl' \in notify_error([d EXCEPT !.kind = "put"],
                                        UNEXPECTED_ERROR, dl.req.backdoor, TRUE)
                /\ UNCHANGED ifiles
           [] o = "exception_partial" ->
                /\ dl' \in notify_error([d EXCEPT !.kind = "put"],
                                        UNEXPECTED_ERROR, dl.req.backdoor, TRUE)
                /\ ifiles' = ifiles \cup {dl.req.file_name}
    /\ UNCHANGED <<icoll, ldir, lfiles>> /\ OthersUnchangedDl

\* lines 328-335: relay the outcome; a raising POST lands in the handler of
\* the try block
DlNotify ==
    /\ dl.pc = "notify"
    /\ \E r \in PostResults(dl.req.backdoor) :
          IF r = "raise"
          THEN dl' \in notify_error(
                           [dl EXCEPT !.kind = "relay",
                                      !.posts = @ \o Sent("none", r)],
                           UNEXPECTED_ERROR, dl.req.backdoor, FALSE)
          ELSE dl' = [dl EXCEPT !.pc = "done", !.ret = "COMPLETED",
                                !.posts = @ \o Sent("none", r)]
    /\ StorageUnchanged /\ OthersUnchangedDl

\* the worker is free for the next request on the same batch
DlNext ==
    /\ dl.pc = "done"
    /\ dl.runs < MaxRuns
    /\ dl' = [dl EXCEPT !.pc = "idle"]
    /\ StorageUnchanged /\ OthersUnchangedDl

InitIngest ==
    /\ production \in BOOLEAN
    /\ icoll \in BOOLEAN
    /\ ifiles = {}
    /\ ldir \in BOOLEAN
    /\ lfiles = {}
    /\ bs = NoAnswer
    /\ dl = NewDl(0, {})
    /\ mp = IdleMp
    /\ cloud = NoCloud
    /\ handles = NoCloud
    /\ cache = NoCloud
    /\ db = {}
    /\ uo = IdleUo
    /\ rt = IdleRt
    /\ ostore = NoCloud
    /\ dt = IdleDt
    /\ stage = NoCloud
    /\ odirs = NoCloud
    /\ tk = NoLink

NextIngest ==
    \/ DlStart \/ DlParams \/ DlCollection \/ DlDownload \/ DlChecksum
    \/ DlSize \/ DlDecompress \/ DlCount \/ DlPut \/ DlNotify \/ DlNext

SpecIngest == InitIngest /\ [][NextIngest]_vars

(***************************************************************************)
(* Submission of an ingestion request: IngestionEndpoint.post              *)
(***************************************************************************)
\* what the handler can meet: nothing, a timeout of the storage backend,
\* and when it creates the staging directory a FileNotFoundError or
\* PermissionError, or another OSError
PostFaults(local) ==
    IF local THEN {"timeout"} ELSE {"timeout", "denied", "oserror"}

\* the staging directory is never created
ingestion_post_no_mkdir_mut(coll, ilist, local, o) ==
    IF o = "timeout"
    THEN [coll |-> coll, ilist |-> ilist, local |-> local,
          code |-> "503", task |-> FALSE]
    ELSE [coll |-> TRUE, ilist |-> ilist, local |-> local,
          code |-> "200", task |-> TRUE]

\* endpoints/ingestion.py lines 112-185: the storage the handler leaves,
\* its answer, and whether download_batch was sent to the queue
ingestion_post(coll, ilist, local, o) ==
    IF o = "timeout"
    THEN [coll |-> coll, ilist |-> ilist, local |-> local,
          code |-> "503", task |-> FALSE]
    ELSE IF o = "ok"
    THEN [coll |-> TRUE, ilist |-> ilist, local |-> TRUE,
          code |-> "200", task |-> TRUE]
    ELSE IF o = "denied"
    \* imain.remove(batch_path, recursive=True, force=True)
    THEN [coll |-> FALSE, ilist |-> {}, local |-> FALSE,
          code |-> "500", task |-> FALSE]
    ELSE [coll |-> TRUE, ilist |-> ilist, local |-> FALSE,
          code |-> "500", task |-> FALSE]

\* the handler ends with outcome o and leaves the task record as given
Submitted(o, task) ==
    LET out == ingestion_post(icoll, ifiles, ldir, o)
    IN /\ icoll' = out.coll
       /\ ifiles' = out.ilist
       /\ ldir' = out.local
       /\ bs' = [variant |-> "post",
                 in |-> [coll |-> icoll, ilist |-> ifiles,
                         local |-> ldir, llist |-> lfiles],
                 out |-> [code |-> out.code, task |-> out.task]]
       /\ dl' = task

\* POST /ingestion/<batch_id>; the task it sends waits in the queue at its
\* first statement
IngestionPost ==
    /\ dl.pc = "idle"
    /\ dl.runs < MaxRuns
    /\ \/ \E req \in Requests :
             Submitted("ok", [NewDl(dl.runs + 1, {}) EXCEPT
                                 !.pc = "params", !.req = req,
                                 !.ifiles0 = ifiles])
       \/ \E o \in PostFaults(ldir) : Submitted(o, dl)
    /\ UNCHANGED lfiles
    /\ UNCHANGED <<production, mp, cloud, handles, cache, db, uo, rt, ostore,
                   dt, stage, odirs, tk>>

InitSubmit ==
    /\ production \in BOOLEAN
    /\ icoll \in BOOLEAN
    /\ ifiles \in (IF icoll THEN {{}, {"other.zip"}} ELSE {{}})
    /\ ldir \in BOOLEAN
    /\ lfiles = {}
    /\ bs = NoAnswer
    /\ dl = NewDl(0, {})
    /\ mp = IdleMp
    /\ cloud = NoCloud
    /\ handles = NoCloud
    /\ cache = NoCloud
    /\ db = {}
    /\ uo = IdleUo
    /\ rt = IdleRt
    /\ ostore = NoCloud
    /\ dt = IdleDt
    /\ stage = NoCloud
    /\ odirs = NoCloud
    /\ tk = NoLink

NextSubmit ==
    \/ IngestionPost \/ DlParams \/ DlCollection \/ DlDownload \/ DlChecksum
    \/ DlSize \/ DlDecompress \/ DlCount \/ DlPut \/ DlNotify \/ DlNext

SpecSubmit == InitSubmit /\ [][NextSubmit]_vars

(***************************************************************************)
(* Promotion task: move_to_production_task                                 *)
(***************************************************************************)
MAX_RETRIES == 5

TempIds == {"t1", "t2"}

\* ifile = str(Path(cloud_path, current_file_name))
ifile(temp_id) == IF temp_id = "t1" THEN "cloud/t1" ELSE "cloud/t2"

Paths == {ifile(t) : t \in TempIds}

\* PIDgenerator.pid_name_fix lower-cases the suffix of the rule output
RuleOutputs == {"21.T12995/AB1", "21.T12995/cd2"}
pid_name_fix(irule_output) ==
    IF irule_output = "21.T12995/AB1" THEN "21.T12995/ab1" ELSE irule_output

PIDs == {pid_name_fix(o) : o \in RuleOutputs}
NO_PID_WITH_BACKDOOR == "NO_PID_WITH_BACKDOOR"

Keys == PIDs \cup {NO_PID_WITH_BACKDOOR} \cup Paths

\* r.set(key, value)
r_set(r, key, value) == [r EXCEPT ![key] = value]

\* the two cache writes of the PID step; the step can fail before the
\* first write, between the two, or not at all
PidStepResults == {"ok", "pid_exception", "set1_exception", "set2_exception"}

pid_step_cache_oneway_mut(r, PID, path, o) ==
    CASE o = "ok" -> r_set(r, PID, path)
      [] o = "set2_exception" -> r_set(r, PID, path)
      [] OTHER -> r

pid_step_cache(r, PID, path, o) ==
    CASE o = "ok" -> r_set(r_set(r, PID, path), path, PID)
      [] o = "set2_exception" -> r_set(r, PID, path)
      [] OTHER -> r

\* for i in range(MAX_RETRIES): attempt i failed, is there another one?
retries_exhausted_off_by_one_mut(i) == i + 1 > MAX_RETRIES

retries_exhausted(i) == i + 1 >= MAX_RETRIES

\* an entry of the pids list: its temp_id (None when the key is absent);
\* the entries are read one by one as the loop reaches them
Elements == [temp_id : TempIds \cup {None}]

\* the pids parameter: key absent, null, or a list of n entries
PromotionRequests ==
    [pids : {"absent", "null"}, n : {0}, backdoor : BOOLEAN]
    \cup [pids : {"list"}, n : 1..MaxEntries, backdoor : BOOLEAN]

\* what the file check of an entry can find in the staging directory
LocalStates == {"ok", "empty", "missing"}

NoObject == [file |-> FALSE, icat |-> FALSE, meta |-> "absent"]

\* no entry has just been handled
NoLast == [outcome |-> None, tries |-> 0, temp_id |-> None, pid |-> None]

NewMp ==
    [pc |-> "idle", req |-> None, element |-> None, total |-> 0, idx |-> 1,
     i |-> 0, PID |-> None, counter |-> 0, errlist |-> <<>>,
     out_data |-> <<>>, handled |-> <<>>, last |-> NoLast,
     state |-> "PENDING", meta |-> [total |-> None, step |-> 0, errors |-> 0],
     ret |-> None, kind |-> None, errors |-> <<>>, notified |-> <<>>,
     posts |-> <<>>, reported |-> {}]

OthersUnchangedMp ==
    UNCHANGED <<production, icoll, ifiles, ldir, lfiles, bs, dl, db, uo, rt,
                ostore, dt, stage, odirs, tk>>

\* record_id = element.get("format_n_code"): the entries of a request
\* carry distinct codes, the k-th one carries k
format_n_code(idx) == idx

error_entry(name, subject) == [error |-> ErrorCodes(name), subject |-> subject]

\* the number of errors is reported as zero
progress_no_errors_mut(t) ==
    [t EXCEPT !.state = "PROGRESS",
              !.meta = [total |-> t.total, step |-> t.counter, errors |-> 0]]

\* self.update_state(state="PROGRESS", meta={total, step, errors})
progress(t) ==
    [t EXCEPT !.state = "PROGRESS",
              !.meta = [total |-> t.total, step |-> t.counter,
                        errors |-> Len(t.errlist)]]

\* how the loop body has just ended for an entry: the outcome, the
\* attempts made in its last step, its temp_id and the PID it was given
\* (None without one); forgotten when the loop reads the next entry
handled_as(t, outcome) ==
    [outcome |-> outcome, tries |-> t.i + 1, temp_id |-> t.element.temp_id,
     pid |-> t.PID]

\* the for loop is left instead of continued
entry_failed_break_mut(t, name, outcome) ==
    progress([t EXCEPT !.errlist = Append(@, error_entry(name, format_n_code(t.idx))),
                       !.handled = Append(@, outcome),
                       !.last = handled_as(t, outcome),
                       !.idx = @ + 1, !.i = 0, !.pc = "notify",
                       !.element = None, !.PID = None])

\* errors.append(...); update_state(...); continue
entry_failed(t, name, outcome) ==
    progress([t EXCEPT !.errlist = Append(@, error_entry(name, format_n_code(t.idx))),
                       !.handled = Append(@, outcome),
                       !.last = handled_as(t, outcome),
                       !.idx = @ + 1, !.i = 0, !.pc = "loop",
                       !.element = None, !.PID = None])

\* one failed attempt of a retry loop whose exhaustion records `name`
attempt_failed(t, name, outcome) ==
    IF retries_exhausted(t.i)
    THEN entry_failed(t, name, outcome)
    ELSE [t EXCEPT !.i = @ + 1]

\* line 28: the worker starts the task
MpStart ==
    /\ mp.pc = "idle"
    /\ mp.req = None
    /\ \E req \in PromotionRequests :
          mp' = [mp EXCEPT !.pc = "begin", !.req = req, !.state = "STARTING"]
    /\ UNCHANGED <<cloud, handles, cache>> /\ OthersUnchangedMp

\* lines 34-58: connect, read the parameters, report the total.
\* An exception before line 43 finds `backdoor` unbound in the handler.
MpBegin ==
    /\ mp.pc = "begin"
    /\ \E o \in {"ok", "irods_exception", "redis_exception"} :
         CASE o = "irods_exception" ->
                mp' = [mp EXCEPT !.pc = "done", !.ret = "raised",
                                 !.kind = "connect"]
           [] o = "ok" /\ mp.req.pids = "null" ->
                \* len(None)
                mp' \in notify_error([mp EXCEPT !.kind = "null_pids"],
                                     UNEXPECTED_ERROR, mp.req.backdoor, FALSE)
           [] o = "redis_exception" /\ mp.req.pids # "null" ->
                mp' \in notify_error(
                           progress([mp EXCEPT !.kind = "connect",
                                               !.total = mp.req.n]),
                           UNEXPECTED_ERROR, mp.req.backdoor, FALSE)
           [] o = "ok" /\ mp.req.pids # "null" ->
                mp' = progress([mp EXCEPT !.pc = "loop",
                                          !.total = mp.req.n])
           [] OTHER -> FALSE
    /\ UNCHANGED <<cloud, handles, cache>> /\ OthersUnchangedMp

\* lines 60-86: next element, or leave the loop; the file check
MpLoop ==
    /\ mp.pc = "loop"
    /\ IF mp.idx > mp.total
       THEN mp' = [mp EXCEPT !.pc = "notify", !.last = NoLast]
       ELSE \E element \in Elements, found \in LocalStates :
            LET t == [mp EXCEPT !.element = element, !.last = NoLast] IN
            IF element.temp_id = None
            THEN \* local_path.joinpath(None) raises TypeError
                 mp' \in notify_error([t EXCEPT !.kind = "no_temp_id"],
                                      UNEXPECTED_ERROR, mp.req.backdoor, FALSE)
            ELSE IF found = "ok"
            THEN mp' = [t EXCEPT !.pc = "copy", !.i = 0]
            ELSE mp' = entry_failed(t, "INGESTION_FILE_NOT_FOUND", "not_found")
    /\ UNCHANGED <<cloud, handles, cache>> /\ OthersUnchangedMp

CurrentPath == ifile(mp.element.temp_id)

\* lines 89-116: one attempt to copy the file into production
MpCopy ==
    /\ mp.pc = "copy"
    /\ \E o \in {"ok", "exception", "exception_partial"} :
         /\ cloud' = IF o = "exception" THEN cloud
                     ELSE [cloud EXCEPT ![CurrentPath].file = TRUE]
         /\ mp' = IF o = "ok" THEN [mp EXCEPT !.pc = "pid", !.i = 0]
                  ELSE attempt_failed(mp, "UNABLE_TO_MOVE_IN_PRODUCTION",
                                      "copy_failed")
    /\ UNCHANGED <<handles, cache>> /\ OthersUnchangedMp

\* what pid_request can answer for a path: a PID not yet given to another
\* path (a new one, or the one the path already has)
pid_request(path) ==
    {pid_name_fix(o) : o \in {x \in RuleOutputs :
                                 handles[pid_name_fix(x)] \in {None, path}}}

\* lines 119-154: one attempt to get a PID and to cache it both ways
MpPid ==
    /\ mp.pc = "pid"
    /\ \E o \in PidStepResults :
         \E PID \in (IF mp.req.backdoor THEN {NO_PID_WITH_BACKDOOR}
                     ELSE IF o = "pid_exception" THEN {None}
                     ELSE pid_request(CurrentPath)) :
            /\ o = "pid_exception" => ~mp.req.backdoor
            /\ handles' = IF PID \in PIDs
                          THEN [handles EXCEPT ![PID] = CurrentPath]
                          ELSE handles
            /\ cache' = pid_step_cache(cache, PID, CurrentPath, o)
            /\ mp' = IF o = "ok"
                     THEN [mp EXCEPT !.pc = "meta", !.i = 0, !.PID = PID]
                     ELSE attempt_failed(mp, "UNABLE_TO_ASSIGN_PID",
                                         "pid_failed")
    /\ UNCHANGED cloud /\ OthersUnchangedMp

\* lines 156-190: one attempt to set the missing metadata keys
MpMeta ==
    /\ mp.pc = "meta"
    /\ \E o \in {"ok", "exception"} :
         /\ cloud' = IF o = "ok" THEN [cloud EXCEPT ![CurrentPath].icat = TRUE]
                     ELSE cloud
         /\ mp' = IF o = "ok" THEN [mp EXCEPT !.pc = "meta_file", !.i = 0]
                  ELSE attempt_failed(mp, "UNABLE_TO_SET_METADATA",
                                      "metadata_failed")
    /\ UNCHANGED <<handles, cache>> /\ OthersUnchangedMp

\* lines 192-242: one attempt to write the .meta file; on success the
\* entry is counted
MpMetaFile ==
    /\ mp.pc = "meta_file"
    /\ \E o \in {"ok", "create_exception", "write_exception"} :
         /\ cloud' =
              CASE o = "ok" -> [cloud EXCEPT ![CurrentPath].meta = "written"]
                [] o = "write_exception" /\ cloud[CurrentPath].meta = "absent" ->
                     [cloud EXCEPT ![CurrentPath].meta = "empty"]
                [] OTHER -> cloud
         /\ mp' = IF o = "ok"
                  THEN progress(
                         [mp EXCEPT !.out_data =
                                       Append(@, [temp_id |-> mp.element.temp_id,
                                                  pid |-> mp.PID]),
                                    !.counter = @ + 1,
                                    !.handled = Append(@, "ok"),
                                    !.last = handled_as(mp, "ok"),
                                    !.idx = @ + 1, !.i = 0, !.pc = "loop",
                                    !.element = None, !.PID = None])
                  ELSE attempt_failed(mp, "UNABLE_TO_SET_METADATA",
                                      "metadata_failed")
    /\ UNCHANGED <<handles, cache>> /\ OthersUnchangedMp

\* lines 244-265: relay the result; report COMPLETED
MpNotify ==
    /\ mp.pc = "notify"
    /\ \E r \in PostResults(mp.req.backdoor) :
          IF r = "raise"
          THEN mp' \in notify_error(
                           [mp EXCEPT !.kind = "relay",
                                      !.posts = @ \o Sent("result", r)],
                           UNEXPECTED_ERROR, mp.req.backdoor, FALSE)
          ELSE mp' = [mp EXCEPT !.pc = "done", !.ret = "ok",
                                !.state = "COMPLETED",
                                !.meta = [total |-> mp.total,
                                          step |-> mp.counter,
                                          errors |-> Len(mp.errlist)],
                                !.posts = @ \o Sent("result", r)]
    /\ UNCHANGED <<cloud, handles, cache>> /\ OthersUnchangedMp

(***************************************************************************)
(* The other writers of the PID cache                                      *)
(***************************************************************************)
\* DataObject rows: uid is unique, path is not
Rows == [uid : PIDs, path : {ifile("t1")}]
DbStates == {d \in SUBSET Rows : \A a, b \in d : a.uid = b.uid => a = b}

\* unrestricted_order skips: "/" not in pid or len(pid) < 10
skipped_pid(pid) == pid \notin PIDs

\* unrestricted_order, lines 55-121: resolve one PID of an order request
ResolvePid ==
    /\ mp.pc \in {"idle", "done"}
    /\ UNCHANGED mp
    /\ \E pid \in PIDs \cup {NO_PID_WITH_BACKDOOR} :
         IF skipped_pid(pid) \/ cache[pid] # None
         THEN UNCHANGED cache
         ELSE LET found == {row \in db : row.uid = pid} IN
              IF found = {}
              THEN UNCHANGED cache
              ELSE \E row \in found, o \in {"ok", "set2_exception"} :
                      cache' = IF o = "ok"
                               THEN r_set(r_set(cache, pid, row.path), row.path, pid)
                               ELSE r_set(cache, pid, row.path)
    /\ UNCHANGED <<cloud, handles>> /\ OthersUnchangedMp

\* cache_batch_pids, lines 55-107: one file of the production collection
CachePid ==
    /\ mp.pc \in {"idle", "done"}
    /\ UNCHANGED mp
    /\ \E file \in {p \in Paths : cloud[p].file} :
         IF cache[file] # None
         THEN UNCHANGED cache
         ELSE LET found == {row \in db : row.path = file} IN
              IF found = {}
              THEN UNCHANGED cache
              ELSE \E row \in found, o \in {"ok", "set2_exception"} :
                      cache' = IF o = "ok"
                               THEN r_set(r_set(cache, row.uid, file), file, row.uid)
                               ELSE r_set(cache, row.uid, file)
    /\ UNCHANGED <<cloud, handles>> /\ OthersUnchangedMp

InitPromote ==
    /\ production = TRUE
    /\ icoll = TRUE
    /\ ifiles = {}
    /\ ldir = TRUE
    /\ lfiles = {}
    /\ bs = NoAnswer
    /\ dl = IdleDl
    /\ mp = NewMp
    /\ cloud = [p \in Paths |-> NoObject]
    /\ handles = [p \in PIDs |-> None]
    /\ cache = [k \in Keys |-> None]
    /\ db \in DbStates
    /\ uo = IdleUo
    /\ rt = IdleRt
    /\ ostore = NoCloud
    /\ dt = IdleDt
    /\ stage = NoCloud
    /\ odirs = NoCloud
    /\ tk = NoLink

NextPromote ==
    \/ MpStart \/ MpBegin \/ MpLoop \/ MpCopy \/ MpPid \/ MpMeta
    \/ MpMetaFile \/ MpNotify \/ ResolvePid \/ CachePid

SpecPromote == InitPromote /\ [][NextPromote]_vars

Recorded(name, k) ==
    \E j \in 1..Len(mp.errlist) :
        mp.errlist[j] = error_entry(name, format_n_code(k))

JustHandled(outcome) ==
    mp.pc = "loop" /\ mp.last.outcome = outcome

C7_BoundedPidRetries ==
    /\ mp.pc = "pid" => mp.i < MAX_RETRIES
    /\ \A k \in 1..Len(mp.handled) :
          mp.handled[k] = "pid_failed" => Recorded("UNABLE_TO_ASSIGN_PID", k)
    /\ JustHandled("pid_failed") =>
          /\ mp.last.tries = MAX_RETRIES
          /\ mp.idx = Len(mp.handled) + 1
          /\ mp.ret = None

C7_Witness ==
    /\ mp.pc = "copy"
    /\ mp.idx = 2
    /\ mp.handled = <<"pid_failed">>
    /\ mp.errlist = <<error_entry("UNABLE_TO_ASSIGN_PID", format_n_code(1))>>

C9_InversePairs ==
    \A k \in Keys : cache[k] # None => cache[cache[k]] = k

\* C10: when the metadata of an entry cannot be persisted, what the PID
\* step recorded for the entry is rolled back, UNABLE_TO_SET_METADATA is
\* recorded and the loop goes on with the next entry.
C10_MetadataRollback ==
    /\ \A k \in 1..Len(mp.handled) :
          mp.handled[k] = "metadata_failed" =>
             Recorded("UNABLE_TO_SET_METADATA", k)
    /\ JustHandled("metadata_failed") =>
          /\ mp.idx = Len(mp.handled) + 1
          /\ cache[mp.last.pid] # ifile(mp.last.temp_id)
          /\ cache[ifile(mp.last.temp_id)] # mp.last.pid
          /\ mp.last.pid \in PIDs =>
                handles[mp.last.pid] # ifile(mp.last.temp_id)

StepOrder == <<"download", "checksum", "size", "decompress", "count", "put">>

\* what the downloaded archive is, whatever the task made of it
ChecksumBad == dl.content # NoContent /\ lower(dl.content.md5) # lower(dl.req.file_checksum)
SizeBad == dl.content # NoContent /\ dl.content.size # dl.req.file_size
ZipBad == dl.zip \in {"not_found", "bad_zip", "extract_exception"}
CountBad == dl.zip = "ok" /\ dl.extracted # dl.req.data_file_count

\* C1: the steps of a run are taken in the order download, checksum, size,
\* decompression, file count, put, and the put is reached only when the
\* four checks have passed.
C1_StepOrder ==
    /\ Len(dl.steps) <= Len(StepOrder)
    /\ dl.steps = SubSeq(StepOrder, 1, Len(dl.steps))
    /\ (dl.pc \in {"put", "notify"} \/ (Len(dl.steps) > 0 /\ dl.steps[Len(dl.steps)] = "put"))
         => /\ dl.content # NoContent
            /\ ~ChecksumBad /\ ~SizeBad /\ ~ZipBad /\ ~CountBad
            /\ dl.zip = "ok"

C1_Witness ==
    /\ dl.pc = "done"
    /\ dl.steps = StepOrder
    /\ dl.ret = "COMPLETED"
    /\ dl.req.file_checksum = "A2B24"
    /\ dl.req.file_name \in ifiles

\* C2: a run in which a verification step (checksum, size, decompression,
\* file count) fails ends as failed and leaves the batch collection as it
\* was when the run started.
C2_NoPartialArtifact ==
    (dl.pc = "done" /\ (ChecksumBad \/ SizeBad \/ ZipBad \/ CountBad)) =>
        /\ dl.ret \in {"Failed", "raised"}
        /\ dl.ret = "Failed" => dl.state = "FAILED"
        /\ ifiles = dl.ifiles0

C2_Witness ==
    /\ dl.pc = "done"
    /\ CountBad /\ ~ChecksumBad /\ ~SizeBad
    /\ dl.ret = "Failed"
    /\ dl.state = "FAILED"
    /\ dl.req.file_name \notin ifiles
    /\ dl.req.file_name \in lfiles

\* the failure kinds of the claim: three causes make one kind
FailureKind(k) ==
    IF k \in {"connection_error", "missing_schema", "not_200"}
    THEN "unreachable" ELSE k

VerificationKinds ==
    {"connection_error", "missing_schema", "not_200", "checksum", "size",
     "not_found", "bad_zip", "count"}

InitStatus ==
    /\ production \in BOOLEAN
    /\ icoll \in BOOLEAN
    /\ ifiles \in (IF icoll THEN SUBSET INames ELSE {{}})
    /\ ldir \in BOOLEAN
    /\ lfiles \in (IF ldir THEN SUBSET LNames ELSE {{}})
    /\ bs = NoAnswer
    /\ dl = IdleDl
    /\ mp = IdleMp
    /\ cloud = NoCloud
    /\ handles = NoCloud
    /\ cache = NoCloud
    /\ db = {}
    /\ uo = IdleUo
    /\ rt = IdleRt
    /\ ostore = NoCloud
    /\ dt = IdleDt
    /\ stage = NoCloud
    /\ odirs = NoCloud
    /\ tk = NoLink

NextStatus == GetBatchStatus \/ FsGetBatchStatus

SpecStatus == InitStatus /\ [][NextStatus]_vars

States == {MISSING_BATCH, NOT_FILLED_BATCH, PARTIALLY_ENABLED_BATCH,
           ENABLED_BATCH, BATCH_MISCONFIGURATION}

C5_EmptyBackend ==
    (bs # NoAnswer /\ bs.in.coll /\ bs.in.local /\ bs.in.ilist = {}) =>
        LET nfiles == Cardinality({x \in bs.in.llist : is_file(x)}) IN
        /\ (nfiles = 0) => bs.out.status = NOT_FILLED_BATCH
        /\ (nfiles >= 1) => bs.out.status = PARTIALLY_ENABLED_BATCH

C5_Witness ==
    /\ bs # NoAnswer
    /\ bs.variant = "irods"
    /\ bs.in.coll /\ bs.in.local /\ bs.in.ilist = {}
    /\ "batch.zip" \in bs.in.llist
    /\ "batch" \in bs.in.llist
    /\ bs.out.status = PARTIALLY_ENABLED_BATCH
(***************************************************************************)
(* File names, as sequences of tokens                                      *)
(***************************************************************************)
OrderId == "o1"

\* SeaDataEndpoint.get_order_zip_file_name
get_order_zip_file_name(order_id, restricted, index) ==
    <<"order_", order_id, "_", IF restricted THEN "restricted" ELSE "unrestricted">>
    \o (IF index = None THEN <<>> ELSE <<index>>) \o <<".zip">>

Suffixes == {".zip", ".bak"}

endswith(name, suffix) == Len(name) > 0 /\ name[Len(name)] = suffix

\* os.path.splitext(name)[0], Path.stem
splitext(name) ==
    IF Len(name) > 1 /\ name[Len(name)] \in Suffixes
    THEN SubSeq(name, 1, Len(name) - 1) ELSE name

\* Path.with_suffix
with_suffix(name, suffix) == splitext(name) \o <<suffix>>

\* the name of a numbered part: f"{base_filename}{index}.zip"
subzip_name(base_filename, index) == base_filename \o <<index, ".zip">>

\* re.search("^.*[^0-9]([0-9]+).zip$", name): the digits before ".zip"
split_index(name) == name[Len(name) - 1]

\* path.name
filename(path) == IF path \in {"cloud/t1", "cloud/sub/t1"} THEN "t1" ELSE "t2"

(***************************************************************************)
(* Archives and zipsplit                                                   *)
(***************************************************************************)
\* MAX_ZIP_SIZE = 2147483648 bytes, counted here in units of 512 MiB
MAX_ZIP_SIZE == 4

\* sizes of the files of an order: below, at and above the half of the
\* maximum, and the maximum itself
FileSizes == {1, 3, 4}

RECURSIVE total_size(_)
total_size(entries) ==
    IF entries = {} THEN 0
    ELSE LET e == CHOOSE x \in entries : TRUE
         IN e.size + total_size(entries \ {e})

names_of(entries) == {e.name : e \in entries}

\* a directory or collection of archives: set of [name, entries]; a write
\* under an existing name replaces the archive
put_archive(dir, name, entries) ==
    {a \in dir : a.name # name} \cup {[name |-> name, entries |-> entries]}

has_archive(dir, name) == \E a \in dir : a.name = name

Partitions(S) ==
    {P \in SUBSET (SUBSET S \ {{}}) :
        /\ UNION P = S
        /\ \A A, B \in P : A # B => A \cap B = {}}

\* the ways to number the members of a set from `first` on
Numberings(S, first) ==
    {f \in [S -> first..(first + Cardinality(S) - 1)] :
        \A a, b \in S : a # b => f[a] # f[b]}

\* /usr/bin/zipsplit -n MAX_ZIP_SIZE -b split_path archive: the parts it
\* can write, each within the maximum, numbered from 1; no part can be
\* written when an entry alone is larger than the maximum
zipsplit(entries) ==
    IF \E e \in entries : e.size > MAX_ZIP_SIZE THEN {}
    ELSE UNION {
           {{[name |-> <<"order_", ToString(f[b]), ".zip">>, entries |-> b] : b \in P} :
               f \in Numberings(P, 1)} :
           P \in {Q \in Partitions(entries) :
                     \A b \in Q : total_size(b) <= MAX_ZIP_SIZE}}

(***************************************************************************)
(* Unrestricted order task: unrestricted_order                             *)
(***************************************************************************)
OrderPids == PIDs \cup {NO_PID_WITH_BACKDOOR}

OrderRows == [uid : PIDs, path : Paths]
OrderDbStates == {d \in SUBSET OrderRows : \A a, b \in d : a.uid = b.uid => a = b}

NewUo ==
    [pc |-> "idle", n |-> 0, backdoor |-> FALSE, idx |-> 1, resolved |-> <<>>,
     files |-> <<>>, k |-> 1, errlist |-> <<>>, counter |-> 0, verified |-> 0,
     local |-> {}, oversize |-> {}, to_split |-> {}, parts |-> {},
     stored |-> {}, subzip_counter |-> 0,
     payload |-> [file_count |-> 0, zipfile_count |-> 0, errors |-> <<>>],
     state |-> "PENDING", ret |-> None, kind |-> None, errors |-> <<>>,
     notified |-> <<>>, posts |-> <<>>, reported |-> {}]

OthersUnchangedUo ==
    UNCHANGED <<production, icoll, ifiles, ldir, lfiles, bs, dl, mp, cloud,
                handles, db, rt, ostore, dt, stage, odirs, tk>>

\* files[pid] = path: a dict keeps the position of a key it already has
dict_set(files, pid, path) ==
    IF \E j \in 1..Len(files) : files[j].pid = pid
    THEN [j \in 1..Len(files) |->
             IF files[j].pid = pid THEN [pid |-> pid, path |-> path]
             ELSE files[j]]
    ELSE Append(files, [pid |-> pid, path |-> path])

\* the backfill writes nothing
order_backfill_none_mut(r, pid, pid_path, o) == r

\* lines 109-110: r.set(pid, str(pid_path)); r.set(str(pid_path), pid)
order_backfill(r, pid, pid_path, o) ==
    CASE o = "ok" -> r_set(r_set(r, pid, pid_path), pid_path, pid)
      [] o = "set2_exception" -> r_set(r, pid, pid_path)
      [] OTHER -> r

\* lines 29-48: the worker starts the task
UoStart ==
    /\ uo.pc = "idle"
    /\ \E n \in 1..MaxPids, backdoor \in BOOLEAN :
          uo' = [uo EXCEPT !.pc = "verify", !.n = n, !.backdoor = backdoor,
                           !.state = "STARTING"]
    /\ UNCHANGED cache /\ OthersUnchangedUo

\* lines 55-121: the next PID of the request is resolved, through the
\* cache or through the DataObject table
UoVerify ==
    /\ uo.pc = "verify"
    /\ IF uo.idx > uo.n
       THEN uo' = [uo EXCEPT !.pc = "copy", !.k = 1] /\ UNCHANGED cache
       ELSE \E pid \in OrderPids :
            LET t == [uo EXCEPT !.idx = @ + 1]
                seen(via, path) ==
                    Append(uo.resolved, [pid |-> pid, via |-> via, path |-> path])
            IN
            IF skipped_pid(pid)
            THEN /\ uo' = [t EXCEPT !.resolved = seen("skipped", None)]
                 /\ UNCHANGED cache
            ELSE IF cache[pid] # None
            THEN /\ uo' = [t EXCEPT !.files = dict_set(@, pid, cache[pid]),
                                    !.verified = @ + 1, !.state = "PROGRESS",
                                    !.resolved = seen("cache", cache[pid])]
                 /\ UNCHANGED cache
            ELSE LET found == {row \in db : row.uid = pid} IN
                 IF found = {}
                 THEN /\ uo' = [t EXCEPT !.errlist =
                                            Append(@, [error |-> ErrorCodes("PID_NOT_FOUND"),
                                                       subject |-> pid]),
                                         !.state = "PROGRESS",
                                         !.resolved = seen("none", None)]
                      /\ UNCHANGED cache
                 ELSE \E row \in found, o \in {"ok", "set1_exception", "set2_exception"} :
                      /\ cache' = order_backfill(cache, pid, row.path, o)
                      /\ IF o = "ok"
                         THEN uo' = [t EXCEPT !.files = dict_set(@, pid, row.path),
                                              !.verified = @ + 1,
                                              !.state = "PROGRESS",
                                              !.resolved = seen("db", row.path)]
                         ELSE uo' \in notify_error(
                                         [t EXCEPT !.kind = "redis",
                                                   !.files = dict_set(@, pid, row.path)],
                                         UNEXPECTED_ERROR, uo.backdoor, FALSE)
    /\ OthersUnchangedUo

\* lines 125-171: the next resolved file is copied into the directory to
\* be zipped, unless it is already there
UoCopy ==
    /\ uo.pc = "copy"
    /\ IF uo.k > Len(uo.files)
       THEN uo' = [uo EXCEPT !.pc = "zip"]
       ELSE LET name == filename(uo.files[uo.k].path)
                t == [uo EXCEPT !.k = @ + 1]
            IN
            IF name \in names_of(uo.local)
            THEN uo' = [t EXCEPT !.counter = @ + 1]
            ELSE \/ \E size \in FileSizes :
                       uo' = [t EXCEPT !.counter = @ + 1,
                                       !.local = @ \cup {[name |-> name, size |-> size]}]
                 \/ uo' = [t EXCEPT !.errlist =
                                       Append(@, [error |-> ErrorCodes("UNABLE_TO_DOWNLOAD_FILE"),
                                                  subject |-> uo.files[uo.k].pid]),
                                    !.state = "PROGRESS"]
    /\ UNCHANGED cache /\ OthersUnchangedUo

zip_file_name == get_order_zip_file_name(OrderId, FALSE, None)

\* the file alone reaches the maximum: file.stat().st_size >= MAX_ZIP_SIZE
is_oversize(file) == file.size >= MAX_ZIP_SIZE

\* lines 176-228: the whole archive is made; when it is larger than the
\* maximum the oversize files are set apart and the archive to split is
\* chosen
UoZip ==
    /\ uo.pc = "zip"
    /\ IF uo.counter = 0
       THEN uo' = [uo EXCEPT !.pc = "notify"]
       ELSE LET zipped == [uo EXCEPT !.stored =
                                        put_archive(@, zip_file_name, uo.local)]
                big == {f \in uo.local : is_oversize(f)}
                rest == uo.local \ big
            IN
            IF total_size(uo.local) > MAX_ZIP_SIZE
            THEN uo' = [zipped EXCEPT !.oversize = big, !.local = rest,
                                      !.to_split = rest,
                                      !.pc = IF rest # {} THEN "split"
                                             ELSE "oversize"]
            ELSE uo' = [zipped EXCEPT !.pc = "oversize"]
    /\ UNCHANGED cache /\ OthersUnchangedUo

\* lines 230-271: zipsplit writes the parts into the split directory
UoSplit ==
    /\ uo.pc = "split"
    /\ \/ \E parts \in zipsplit(uo.to_split) :
             uo' = [uo EXCEPT !.parts = parts, !.pc = "oversize"]
       \/ /\ zipsplit(uo.to_split) = {}
          /\ uo' \in notify_error([uo EXCEPT !.kind = "zipsplit"],
                                  ErrorCodes("ZIP_SPLIT_ENTRY_TOO_LARGE"),
                                  uo.backdoor, TRUE)
       \/ uo' \in notify_error([uo EXCEPT !.kind = "zipsplit"],
                               ErrorCodes("ZIP_SPLIT_ERROR"), uo.backdoor, TRUE)
    /\ UNCHANGED cache /\ OthersUnchangedUo

\* the numbering of the oversize archives starts again at 1
zipsplit_index_restart_mut(parts) == 1

\* lines 278-282: the first index after the parts already written
zipsplit_index(parts) == Cardinality(parts) + 1

\* lines 272-304: every oversize file gets an archive of its own
UoOversize ==
    /\ uo.pc = "oversize"
    /\ \E f \in Numberings(uo.oversize, zipsplit_index(uo.parts)) :
          uo' = [uo EXCEPT
                   !.parts = @ \cup {[name |-> <<"oversize", ToString(f[file]), ".zip">>,
                                      entries |-> {file}] : file \in uo.oversize},
                   !.oversize = {},
                   !.pc = "rename"]
    /\ UNCHANGED cache /\ OthersUnchangedUo

RECURSIVE copy_all(_, _, _)
\* the parts are copied one after the other under their final names
copy_all(dir, parts, base_filename) ==
    IF parts = {} THEN dir
    ELSE LET part == CHOOSE x \in parts : TRUE
         IN copy_all(put_archive(dir, subzip_name(base_filename,
                                                  split_index(part.name)),
                                 part.entries),
                     parts \ {part}, base_filename)

\* lines 306-350: the parts are copied into the order directory as
\* <base_filename><index>.zip
UoRename ==
    /\ uo.pc = "rename"
    /\ IF uo.parts = {}
       THEN uo' = [uo EXCEPT !.pc = "notify"]
       ELSE \/ uo' = [uo EXCEPT !.stored = copy_all(@, uo.parts,
                                                    splitext(zip_file_name)),
                                !.subzip_counter = @ + 1,
                                !.parts = {},
                                !.pc = "notify"]
            \/ \E copied \in SUBSET uo.parts :
                 /\ copied # uo.parts
                 /\ uo' \in notify_error(
                               [uo EXCEPT !.kind = "copy",
                                          !.stored = copy_all(@, copied,
                                                              splitext(zip_file_name))],
                               UNEXPECTED_ERROR, uo.backdoor, TRUE)
    /\ UNCHANGED cache /\ OthersUnchangedUo

\* lines 352-406: the temporary files are removed, the result is relayed
\* and COMPLETED is reported; zip_path is bound only when counter > 0
UoNotify ==
    /\ uo.pc = "notify"
    /\ IF uo.counter = 0
       THEN \* temp_zipfile = zip_path.parent...: UnboundLocalError
            uo' \in notify_error([uo EXCEPT !.kind = "unbound_zip_path",
                                            !.local = {}],
                                 UNEXPECTED_ERROR, uo.backdoor, FALSE)
       ELSE LET t == [uo EXCEPT
                        !.local = {},
                        !.payload = [file_count |-> uo.counter,
                                     zipfile_count |->
                                        IF uo.subzip_counter > 0
                                        THEN uo.subzip_counter ELSE 1,
                                     errors |-> uo.errlist]]
            IN \E r \in PostResults(uo.backdoor) :
               IF r = "raise"
               THEN uo' \in notify_error(
                               [t EXCEPT !.kind = "relay",
                                         !.posts = @ \o Sent("result", r)],
                               UNEXPECTED_ERROR, uo.backdoor, FALSE)
               ELSE uo' = [t EXCEPT !.pc = "done", !.ret = "ok",
                                    !.state = "COMPLETED",
                                    !.posts = @ \o Sent("result", r)]
    /\ UNCHANGED cache /\ OthersUnchangedUo

InitOrder ==
    /\ production = TRUE
    /\ icoll = TRUE
    /\ ifiles = {}
    /\ ldir = TRUE
    /\ lfiles = {}
    /\ bs = NoAnswer
    /\ dl = IdleDl
    /\ mp = IdleMp
    /\ cloud = NoCloud
    /\ handles = NoCloud
    /\ cache \in {[k \in Keys |-> None],
                  [k \in Keys |-> IF k = "21.T12995/ab1" THEN "cloud/t1"
                                  ELSE IF k = "cloud/t1" THEN "21.T12995/ab1"
                                  ELSE None]}
    /\ db \in OrderDbStates
    /\ uo = NewUo
    /\ rt = IdleRt
    /\ ostore = NoCloud
    /\ dt = IdleDt
    /\ stage = NoCloud
    /\ odirs = NoCloud
    /\ tk = NoLink

NextOrder ==
    \/ UoStart \/ UoVerify \/ UoCopy \/ UoZip \/ UoSplit \/ UoOversize
    \/ UoRename \/ UoNotify

SpecOrder == InitOrder /\ [][NextOrder]_vars

\* the production collection also holds a file t1 in a sub-collection
SubPath == "cloud/sub/t1"

InitSameName ==
    /\ production = TRUE
    /\ icoll = TRUE
    /\ ifiles = {}
    /\ ldir = TRUE
    /\ lfiles = {}
    /\ bs = NoAnswer
    /\ dl = IdleDl
    /\ mp = IdleMp
    /\ cloud = NoCloud
    /\ handles = NoCloud
    /\ cache = [k \in Keys \cup {SubPath} |-> None]
    /\ db \in {d \in SUBSET [uid : PIDs, path : Paths \cup {SubPath}] :
                  \A a, b \in d : a.uid = b.uid => a = b}
    /\ uo = NewUo
    /\ rt = IdleRt
    /\ ostore = NoCloud
    /\ dt = IdleDt
    /\ stage = NoCloud
    /\ odirs = NoCloud
    /\ tk = NoLink

SpecSameName == InitSameName /\ [][NextOrder]_vars


\* C13: a PID absent from the cache and present in the DataObject table is
\* resolved to the path of its row and cached both ways, so that the next
\* resolution of the PID is a cache hit with the same path.
C13_Backfill ==
    \A j \in 1..Len(uo.resolved) :
        uo.resolved[j].via = "db" =>
           /\ [uid |-> uo.resolved[j].pid, path |-> uo.resolved[j].path] \in db
           /\ cache[uo.resolved[j].pid] = uo.resolved[j].path
           /\ j = Len(uo.resolved) =>
                 cache[uo.resolved[j].path] = uo.resolved[j].pid
           /\ \A k \in (j + 1)..Len(uo.resolved) :
                 uo.resolved[k].pid = uo.resolved[j].pid =>
                    /\ uo.resolved[k].via = "cache"
                    /\ uo.resolved[k].path = uo.resolved[j].path

C13_Witness ==
    /\ Len(uo.resolved) = 2
    /\ uo.resolved[1].via = "db"
    /\ uo.resolved[2].via = "cache"
    /\ uo.resolved[2].pid = uo.resolved[1].pid
    /\ uo.resolved[2].path = uo.resolved[1].path
    /\ uo.files = <<[pid |-> uo.resolved[1].pid, path |-> uo.resolved[1].path]>>

NotFoundPids ==
    {uo.resolved[j].pid : j \in {i \in 1..Len(uo.resolved) :
                                    uo.resolved[i].via = "none"}}

\* C14: a PID found neither in the cache nor in the DataObject table is
\* recorded as PID_NOT_FOUND and does not abort the unrestricted order: the
\* task completes and forwards the errors, also when no PID resolves.
C14_NotFoundContinues ==
    (/\ uo.pc = "done"
     /\ NotFoundPids # {}
     /\ uo.kind \notin {"redis", "zipsplit", "copy", "relay"}) =>
        /\ uo.ret = "ok"
        /\ uo.state = "COMPLETED"
        /\ \A pid \in NotFoundPids :
              \E j \in 1..Len(uo.payload.errors) :
                  uo.payload.errors[j] = [error |-> ErrorCodes("PID_NOT_FOUND"),
                                          subject |-> pid]

Whole == {a \in uo.stored : a.name = zip_file_name}
SplitParts == uo.stored \ Whole

Tasks == {1, 2}

\* sizes of the files of a payload: small, more than half the maximum,
\* more than the maximum (in units of 512 MiB)
PayloadSizes == {1, 3, 5}

\* the files of the archive a request asks to download: the two requests
\* carry different files
Payloads(i) ==
    {{[name |-> IF i = 1 THEN "a" ELSE "b", size |-> size]} : size \in PayloadSizes}

\* parameters.zipfile_name is taken from the request as it is
ZipfileNames ==
    {<<"order_", OrderId, "_", "restricted">>,
     <<"order_", OrderId, "_", "restricted", ".zip">>,
     <<"myarchive">>}

\* lines 109-118: the name of the final archive in the order collection
final_zip(zipfile_name) ==
    IF endswith(zipfile_name, ".zip") THEN zipfile_name
    ELSE zipfile_name \o <<".zip">>

\* line 417
backup_zip(zipfile_name) == with_suffix(final_zip(zipfile_name), ".bak")

\* what the checks of lines 84-316 can report before anything is stored
RtVerifyFaults ==
    {"ORDER_NOT_FOUND", "MISSING_ZIPFILENAME_PARAM", "INVALID_FILESIZE_PARAM",
     "UNREACHABLE_DOWNLOAD_PATH", "CHECKSUM_DOESNT_MATCH",
     "FILESIZE_DOESNT_MATCH", "UNZIP_ERROR_INVALID_FILE",
     "UNZIP_ERROR_WRONG_FILECOUNT"}

archive_of(dir, name) == CHOOSE a \in dir : a.name = name

entries_of(dir, name) ==
    IF has_archive(dir, name) THEN archive_of(dir, name).entries ELSE {}

remove_archive(dir, name) == {a \in dir : a.name # name}

\* the previous archive is removed instead of renamed
irods_move_drop_mut(coll, src, dst) == remove_archive(coll, src)

\* IrodsPythonExt.move of a data object
irods_move(coll, src, dst) ==
    put_archive(remove_archive(coll, src), dst, entries_of(coll, src))

\* the files replace the entries of the archive
zip_append_replace_mut(entries, files) == files

\* zipfile.ZipFile(path, "a").write(file, name) for every file
zip_append(entries, files) == entries \cup files

NewRt ==
    [pc |-> "idle",
     req |-> [zipfile_name |-> <<>>, payload |-> {}, backdoor |-> FALSE],
     mode |-> None, prev |-> {}, merged |-> {},
     state |-> "PENDING", ret |-> None, kind |-> None, errors |-> <<>>,
     notified |-> <<>>, posts |-> <<>>, reported |-> {}]

OthersUnchangedRt ==
    UNCHANGED <<production, icoll, ifiles, ldir, lfiles, bs, dl, mp, cloud,
                handles, cache, db, uo, dt, stage, odirs, tk>>

\* the task record of request i becomes one of `records`
RtBecomes(i, records) == \E u \in records : rt' = [rt EXCEPT ![i] = u]

RtFails(i, kind, name) ==
    RtBecomes(i, notify_error([rt[i] EXCEPT !.kind = kind], ErrorCodes(name),
                              rt[i].req.backdoor, TRUE))

FinalZip(i) == final_zip(rt[i].req.zipfile_name)
BackupZip(i) == backup_zip(rt[i].req.zipfile_name)

\* lines 64-80: the worker starts the task of a request
RtStart(i) ==
    /\ rt[i].pc = "idle"
    /\ \E zipfile_name \in ZipfileNames, payload \in Payloads(i),
          backdoor \in BOOLEAN :
          rt' = [rt EXCEPT ![i] = [@ EXCEPT !.pc = "verify",
                                            !.req = [zipfile_name |-> zipfile_name,
                                                     payload |-> payload,
                                                     backdoor |-> backdoor]]]
    /\ UNCHANGED ostore /\ OthersUnchangedRt

\* lines 82-316: the order collection and the parameters are checked, the
\* archive is downloaded, verified and unzipped
RtVerify(i) ==
    /\ rt[i].pc = "verify"
    /\ \/ rt' = [rt EXCEPT ![i] = [@ EXCEPT !.pc = "exists", !.state = "PROGRESS"]]
       \/ \E fault \in RtVerifyFaults : RtFails(i, "verify", fault)
    /\ UNCHANGED ostore /\ OthersUnchangedRt

\* line 319: does the final archive exist in the order collection?
RtExists(i) ==
    /\ rt[i].pc = "exists"
    /\ rt' = [rt EXCEPT ![i] =
                IF has_archive(ostore.coll, FinalZip(i))
                THEN [@ EXCEPT !.pc = "fetch", !.mode = "merge",
                               !.prev = entries_of(ostore.coll, FinalZip(i))]
                ELSE [@ EXCEPT !.pc = "put_new", !.mode = "new"]]
    /\ UNCHANGED ostore /\ OthersUnchangedRt

\* lines 320-346: no final archive: the downloaded one is uploaded
RtPutNew(i) ==
    /\ rt[i].pc = "put_new"
    /\ \/ /\ ostore' = [ostore EXCEPT !.coll = put_archive(@, FinalZip(i),
                                                           rt[i].req.payload)]
          /\ rt' = [rt EXCEPT ![i] = [@ EXCEPT !.pc = "completed",
                                               !.merged = rt[i].req.payload]]
       \/ /\ \E written \in {FALSE, TRUE} :
                ostore' = IF written
                          THEN [ostore EXCEPT !.coll = put_archive(@, FinalZip(i), {})]
                          ELSE ostore
          /\ \E name \in {"B2SAFE_UPLOAD_ERROR", "UNEXPECTED_ERROR"} :
                RtFails(i, "upload", name)
    /\ OthersUnchangedRt

\* lines 347-366: the final archive is copied into the local order
\* directory, under its own name
RtFetch(i) ==
    /\ rt[i].pc = "fetch"
    /\ \/ /\ has_archive(ostore.coll, FinalZip(i))
          /\ ostore' = [ostore EXCEPT !.local =
                           put_archive(@, FinalZip(i),
                                       entries_of(ostore.coll, FinalZip(i)))]
          /\ rt' = [rt EXCEPT ![i] = [@ EXCEPT !.pc = "append"]]
       \/ /\ UNCHANGED ostore
          /\ RtFails(i, "fetch", "UNEXPECTED_ERROR")
    /\ OthersUnchangedRt

\* lines 368-414: the unzipped files are appended to the local copy; an
\* archive cut short by a failed upload (no entries) cannot be opened
RtAppend(i) ==
    /\ rt[i].pc = "append"
    /\ \/ /\ entries_of(ostore.local, FinalZip(i)) # {}
          /\ ostore' = [ostore EXCEPT !.local =
                           put_archive(@, FinalZip(i),
                                       zip_append(entries_of(ostore.local, FinalZip(i)),
                                                  rt[i].req.payload))]
          /\ rt' = [rt EXCEPT ![i] = [@ EXCEPT !.pc = "backup"]]
       \/ /\ UNCHANGED ostore
          /\ \E name \in {"UNZIP_ERROR_FILE_NOT_FOUND", "UNZIP_ERROR_INVALID_FILE",
                          "UNABLE_TO_CREATE_ZIP_FILE"} :
                RtFails(i, "append", name)
    /\ OthersUnchangedRt

\* lines 415-423: a previous backup is removed
RtBackup(i) ==
    /\ rt[i].pc = "backup"
    /\ \/ /\ ostore' = [ostore EXCEPT !.coll = remove_archive(@, BackupZip(i))]
          /\ rt' = [rt EXCEPT ![i] = [@ EXCEPT !.pc = "move"]]
       \/ /\ UNCHANGED ostore
          /\ RtFails(i, "backup", "UNEXPECTED_ERROR")
    /\ OthersUnchangedRt

\* line 424: the final archive is renamed to its backup name; the move
\* raises when the source is missing or the destination exists
RtMove(i) ==
    /\ rt[i].pc = "move"
    /\ \/ /\ has_archive(ostore.coll, FinalZip(i))
          /\ ~has_archive(ostore.coll, BackupZip(i))
          /\ ostore' = [ostore EXCEPT !.coll = irods_move(@, FinalZip(i), BackupZip(i))]
          /\ rt' = [rt EXCEPT ![i] = [@ EXCEPT !.pc = "upload"]]
       \/ /\ UNCHANGED ostore
          /\ RtFails(i, "move", "UNEXPECTED_ERROR")
    /\ OthersUnchangedRt

\* lines 426-438: the merged local copy is uploaded as the final archive
RtUpload(i) ==
    /\ rt[i].pc = "upload"
    /\ \/ /\ has_archive(ostore.local, FinalZip(i))
          /\ ostore' = [ostore EXCEPT !.coll =
                           put_archive(@, FinalZip(i),
                                       entries_of(ostore.local, FinalZip(i)))]
          /\ rt' = [rt EXCEPT ![i] = [@ EXCEPT !.pc = "completed",
                                               !.merged = entries_of(ostore.local,
                                                                     FinalZip(i))]]
       \/ /\ \E written \in {FALSE, TRUE} :
                ostore' = IF written
                          THEN [ostore EXCEPT !.coll = put_archive(@, FinalZip(i), {})]
                          ELSE ostore
          /\ RtFails(i, "upload", "UNEXPECTED_ERROR")
    /\ OthersUnchangedRt

RECURSIVE put_all(_, _, _)
\* lines 496-531: every part is uploaded as <base_filename><index>.zip
put_all(coll, parts, base_filename) ==
    IF parts = {} THEN coll
    ELSE LET part == CHOOSE x \in parts : TRUE
         IN put_all(put_archive(coll, subzip_name(base_filename,
                                                  split_index(part.name)),
                                part.entries),
                    parts \ {part}, base_filename)

\* lines 441-531: COMPLETED is reported; an archive larger than the
\* maximum is split and its parts are uploaded
RtCompleted(i) ==
    /\ rt[i].pc = "completed"
    /\ LET t == [rt[i] EXCEPT !.state = "COMPLETED"] IN
       IF total_size(rt[i].merged) > MAX_ZIP_SIZE
       THEN \/ \E parts \in zipsplit(rt[i].merged) :
                 \/ /\ ostore' = [ostore EXCEPT !.coll =
                                     put_all(@, parts, rt[i].req.zipfile_name)]
                    /\ rt' = [rt EXCEPT ![i] = [t EXCEPT !.pc = "notify"]]
                 \/ \E sent \in SUBSET parts :
                       /\ sent # parts
                       /\ ostore' = [ostore EXCEPT !.coll =
                                        put_all(@, sent, rt[i].req.zipfile_name)]
                       /\ RtBecomes(i, notify_error(
                                          [t EXCEPT !.kind = "part_upload"],
                                          UNEXPECTED_ERROR, rt[i].req.backdoor, TRUE))
            \/ /\ zipsplit(rt[i].merged) = {}
               /\ UNCHANGED ostore
               /\ RtBecomes(i, notify_error(
                                  [t EXCEPT !.kind = "entry_too_large"],
                                  ErrorCodes("ZIP_SPLIT_ENTRY_TOO_LARGE"),
                                  rt[i].req.backdoor, TRUE))
            \/ /\ UNCHANGED ostore
               /\ RtBecomes(i, notify_error(
                                  [t EXCEPT !.kind = "zipsplit"],
                                  ErrorCodes("ZIP_SPLIT_ERROR"),
                                  rt[i].req.backdoor, TRUE))
       ELSE /\ rt' = [rt EXCEPT ![i] = [t EXCEPT !.pc = "notify"]]
            /\ UNCHANGED ostore
    /\ OthersUnchangedRt

\* lines 533-540: the result is relayed
RtNotify(i) ==
    /\ rt[i].pc = "notify"
    /\ \E r \in PostResults(rt[i].req.backdoor) :
          IF r = "raise"
          THEN RtBecomes(i, notify_error(
                               [rt[i] EXCEPT !.kind = "relay",
                                             !.posts = @ \o Sent("result", r)],
                               UNEXPECTED_ERROR, rt[i].req.backdoor, FALSE))
          ELSE rt' = [rt EXCEPT ![i] = [@ EXCEPT !.pc = "done", !.ret = "ok",
                                                 !.posts = @ \o Sent("result", r)]]
    /\ UNCHANGED ostore /\ OthersUnchangedRt

RtStep(i) ==
    \/ RtStart(i) \/ RtVerify(i) \/ RtExists(i) \/ RtPutNew(i) \/ RtFetch(i)
    \/ RtAppend(i) \/ RtBackup(i) \/ RtMove(i) \/ RtUpload(i)
    \/ RtCompleted(i) \/ RtNotify(i)

InitRestricted ==
    /\ production = TRUE
    /\ icoll = TRUE
    /\ ifiles = {}
    /\ ldir = TRUE
    /\ lfiles = {}
    /\ bs = NoAnswer
    /\ dl = IdleDl
    /\ mp = IdleMp
    /\ cloud = NoCloud
    /\ handles = NoCloud
    /\ cache = NoCloud
    /\ db = {}
    /\ uo = IdleUo
    /\ rt = [i \in Tasks |-> NewRt]
    /\ ostore = [coll |-> {}, local |-> {}]
    /\ dt = IdleDt
    /\ stage = NoCloud
    /\ odirs = NoCloud
    /\ tk = NoLink

\* the worker takes the second request when the first task has returned
OneAtATime(i) == \A j \in Tasks \ {i} : rt[j].pc \in {"idle", "done"}

NextRestricted == \E i \in Tasks : OneAtATime(i) /\ RtStep(i)

SpecRestricted == InitRestricted /\ [][NextRestricted]_vars

\* the workers of the queue run the tasks of the two requests side by side
NextOverlap == \E i \in Tasks : RtStep(i)

SpecOverlap == InitRestricted /\ [][NextOverlap]_vars

(***************************************************************************)
(* Claims on restricted orders                                             *)
(***************************************************************************)
\* the request i is the only one that merged into an existing archive
OnlyMerge(i) ==
    /\ rt[i].mode = "merge"
    /\ \A j \in Tasks \ {i} : rt[j].mode # "merge"

BothOk == \A i \in Tasks : rt[i].pc = "done" /\ rt[i].ret = "ok"

SameArchive == FinalZip(1) = FinalZip(2)

BothPayloads == rt[1].req.payload \cup rt[2].req.payload

\* C16: two restricted requests of one order, one after the other, with
\* different payloads and the same archive name: the final archive holds
\* the files of both payloads and the .bak holds the first archive.
C16_SequentialMerge ==
    (BothOk /\ SameArchive) =>
        /\ entries_of(ostore.coll, FinalZip(1)) = BothPayloads
        /\ \E first \in Tasks :
              /\ rt[first].mode = "new"
              /\ has_archive(ostore.coll, BackupZip(1))
              /\ entries_of(ostore.coll, BackupZip(1)) = rt[first].req.payload

C16_Witness ==
    /\ BothOk /\ SameArchive
    /\ rt[1].mode = "new" /\ rt[2].mode = "merge"
    /\ Cardinality(entries_of(ostore.coll, FinalZip(1))) = 2
    /\ entries_of(ostore.coll, BackupZip(1)) = rt[1].req.payload

\* C17: two restricted tasks of one order that overlap in time end with
\* one final archive holding the files of both payloads, whatever the
\* interleaving.
C17_OverlapKeepsPayloads ==
    (BothOk /\ SameArchive) =>
        entries_of(ostore.coll, FinalZip(1)) = BothPayloads

\* C19: an entry larger than the maximum does not fail the split of a
\* restricted order: the task ends well and the entry is stored in an
\* archive of its own, next to the final archive and its backup.
C19_OversizeEntryRestricted ==
    \A i \in Tasks :
        (/\ rt[i].pc = "done"
         /\ rt[i].state \in {"COMPLETED", "FAILED"}
         /\ rt[i].merged # {}
         /\ rt[i].kind \notin {"zipsplit", "part_upload", "relay"}) =>
            \A e \in rt[i].merged : e.size > MAX_ZIP_SIZE =>
                /\ rt[i].ret = "ok"
                /\ \E a \in ostore.coll :
                      /\ a.name \notin {FinalZip(i), BackupZip(i)}
                      /\ a.entries = {e}

\* the names order_<id>_restricted[index].zip
RestrictedNames ==
    {get_order_zip_file_name(OrderId, TRUE, index) : index \in {None, "1", "2"}}

\* C20: every archive stored in the collection of a restricted order is
\* named order_<id>_restricted[index].zip (its backup has the same name
\* with the suffix .bak).
C20_RestrictedArchiveNames ==
    \A a \in ostore.coll :
        \/ a.name \in RestrictedNames
        \/ a.name = with_suffix(get_order_zip_file_name(OrderId, TRUE, None), ".bak")

(***************************************************************************)
(* Deletion tasks: delete_batches, delete_orders                           *)
(***************************************************************************)
BatchIds == {"b1", "b2"}
OrderIds == {"o1", "a:b"}

\* the archives of an order: order_<id>_<label>[index].zip
OrderNames(order_id) ==
    {get_order_zip_file_name(order_id, restricted, index) :
        restricted \in BOOLEAN, index \in {None, "1", "2"}}

\* Fernet.generate_key()[0:12]: a value never seen before; n counts the
\* seeds generated for the order
Seed(order_id, n) == (IF order_id = "o1" THEN "k" ELSE "q") \o ToString(n)

\* a batch: its collection and its staging directory
BatchStates == [coll : BOOLEAN, local : BOOLEAN]

\* an order: its collection with the objects stored by restricted tasks,
\* its local directory with the seed file and the archives, and the
\* number of seeds generated so far
OrderStates(order_id) ==
    LET R == get_order_zip_file_name(order_id, TRUE, None)
        U == get_order_zip_file_name(order_id, FALSE, None)
    IN {[coll |-> coll,
         objects |-> IF coll THEN {R, with_suffix(R, ".bak")} ELSE {},
         dir |-> ds[1], seed |-> ds[2],
         files |-> IF ds[1] THEN {U} ELSE {},
         gen |-> IF ds[2] = None THEN 0 ELSE 1] :
            coll \in BOOLEAN,
            ds \in {<<FALSE, None>>, <<TRUE, None>>, <<TRUE, Seed(order_id, 1)>>}}

\* shutil.rmtree(path, ignore_errors=True): the tree is removed, or it
\* could not be removed and is left without any error
rmtree(d) == {[d EXCEPT !.dir = FALSE, !.seed = None, !.files = {}], d}

\* the json of a deletion request: parameters.batches / parameters.orders
\* may be missing, and the list may be empty
IdLists(ids) == UNION {[1..n -> ids] : n \in 0..MaxIds}

NewDt(task, present, ids, backdoor) ==
    [pc |-> "loop", task |-> task,
     req |-> [present |-> present, ids |-> ids, backdoor |-> backdoor],
     idx |-> 1, counter |-> 0, errlist |-> <<>>, handled |-> <<>>,
     meta |-> [total |-> Len(ids), step |-> 0, errors |-> 0],
     state |-> "PENDING", ret |-> None, kind |-> None, errors |-> <<>>,
     notified |-> <<>>, posts |-> <<>>, reported |-> {}, timer |-> FALSE]

\* the deletion also drops the cache entries and the records
OthersUnchangedDt_purge_mut ==
    /\ cache' = [k \in DOMAIN cache |-> None]
    /\ db' = {}
    /\ UNCHANGED <<production, icoll, ifiles, ldir, lfiles, bs, dl, mp, cloud,
                   handles, uo, rt, ostore, tk>>

OthersUnchangedDt ==
    UNCHANGED <<production, icoll, ifiles, ldir, lfiles, bs, dl, mp, cloud,
                handles, cache, db, uo, rt, ostore, tk>>

dt_error(name, subject) == [error |-> ErrorCodes(name), subject |-> subject]

\* one pass of the loop has handled `id` with `outcome`
dt_handled(t, id, before, outcome, errlist) ==
    [t EXCEPT !.idx = @ + 1,
              !.pc = IF t.idx = Len(t.req.ids) THEN "notify" ELSE "loop",
              !.counter = @ + 1,
              !.state = "PROGRESS",
              !.meta = [total |-> Len(t.req.ids), step |-> t.counter + 1,
                        errors |-> IF outcome \in {"not_found", "failed"}
                                   THEN Len(errlist) ELSE Len(t.errlist)],
              !.errlist = errlist,
              !.timer = FALSE,
              !.handled = Append(@, [id |-> id, before |-> before,
                                     outcome |-> outcome])]

\* the list is measured before its absence is looked at
dt_param_error_empty_first_mut(task, present, ids) ==
    IF Len(ids) = 0
    THEN (IF task = "batches" THEN "EMPTY_BATCHES_PARAMETER"
          ELSE "EMPTY_ORDERS_PARAMETER")
    ELSE IF ~present
    THEN (IF task = "batches" THEN "MISSING_BATCHES_PARAMETER"
          ELSE "MISSING_ORDERS_PARAMETER")
    ELSE None

\* delete_batches lines 35-43, delete_orders lines 40-46
dt_param_error(task, present, ids) ==
    IF ~present
    THEN (IF task = "batches" THEN "MISSING_BATCHES_PARAMETER"
          ELSE "MISSING_ORDERS_PARAMETER")
    ELSE IF Len(ids) = 0
    THEN (IF task = "batches" THEN "EMPTY_BATCHES_PARAMETER"
          ELSE "EMPTY_ORDERS_PARAMETER")
    ELSE None

\* delete_batches lines 22-46, delete_orders lines 23-48: the parameter
\* checks; the request id is required by the input schema
DtStart(task, lists) ==
    /\ dt.pc = "idle"
    /\ \E present \in BOOLEAN, backdoor \in BOOLEAN, ids \in lists :
          /\ ~present => ids = <<>>
          /\ LET t == NewDt(task, present, ids, backdoor)
                 error == dt_param_error(task, present, ids)
             IN IF error # None
                THEN dt' \in notify_error([t EXCEPT !.kind = "params"],
                                          ErrorCodes(error), backdoor, FALSE)
                ELSE \/ dt' = t
                     \/ /\ task = "batches"
                        /\ dt' \in notify_error([t EXCEPT !.kind = "session"],
                                                UNEXPECTED_ERROR, backdoor, FALSE)
    /\ UNCHANGED <<stage, odirs>> /\ OthersUnchangedDt

\* delete_batches lines 50-102: one batch of the list
DtBatch ==
    /\ dt.pc = "loop" /\ dt.task = "batches"
    /\ LET batch == dt.req.ids[dt.idx]
           b == stage[batch]
       IN \/ /\ ~b.coll
             /\ dt' = dt_handled(dt, batch, b, "not_found",
                                 Append(dt.errlist, dt_error("BATCH_NOT_FOUND", batch)))
             /\ UNCHANGED stage
          \* the handler of lines 86-99 does not call stop_timeout: the
          \* timer stays armed unless the exception is the timeout itself
          \/ /\ \E armed \in BOOLEAN :
                   dt' = [dt_handled(dt, batch, b, "failed",
                                     Append(dt.errlist,
                                            dt_error("UNEXPECTED_ERROR", batch)))
                             EXCEPT !.timer = armed]
             /\ UNCHANGED stage
          \/ /\ b.coll
             /\ \E local \in (IF b.local THEN BOOLEAN ELSE {FALSE}) :
                   /\ stage' = [stage EXCEPT ![batch] = [coll |-> FALSE,
                                                         local |-> local]]
                   /\ dt' = dt_handled(dt, batch, b,
                                       IF local THEN "left" ELSE "removed",
                                       dt.errlist)
    /\ UNCHANGED odirs /\ OthersUnchangedDt

\* delete_orders lines 51-86: one order of the list
DtOrder ==
    /\ dt.pc = "loop" /\ dt.task = "orders"
    /\ LET order == dt.req.ids[dt.idx]
           d == odirs[order]
       IN IF d.dir
          THEN \E after \in rmtree(d) :
                  /\ odirs' = [odirs EXCEPT ![order] = after]
                  /\ dt' = dt_handled(dt, order, [dir |-> TRUE],
                                      IF after.dir THEN "left" ELSE "removed",
                                      dt.errlist)
          ELSE /\ dt' = dt_handled(dt, order, [dir |-> FALSE], "not_found",
                                   Append(dt.errlist,
                                          dt_error("ORDER_NOT_FOUND", order)))
               /\ UNCHANGED odirs
    /\ UNCHANGED stage /\ OthersUnchangedDt

\* delete_batches lines 104-113, delete_orders lines 88-98: the errors
\* are attached and the result is relayed
DtNotify ==
    /\ dt.pc = "notify"
    /\ \E r \in PostResults(dt.req.backdoor) :
          IF r = "raise"
          THEN dt' \in notify_error(
                           [dt EXCEPT !.kind = "relay",
                                      !.posts = @ \o Sent("result", r)],
                           UNEXPECTED_ERROR, dt.req.backdoor, FALSE)
          ELSE dt' = [dt EXCEPT !.pc = "done",
                                !.ret = IF dt.task = "batches" THEN "ok"
                                        ELSE "COMPLETED",
                                !.posts = @ \o Sent("result", r)]
    /\ UNCHANGED <<stage, odirs>> /\ OthersUnchangedDt

InitDelete ==
    /\ production \in BOOLEAN
    /\ icoll = FALSE
    /\ ifiles = {}
    /\ ldir = FALSE
    /\ lfiles = {}
    /\ bs = NoAnswer
    /\ dl = IdleDl
    /\ mp = IdleMp
    /\ cloud = NoCloud
    /\ handles = NoCloud
    /\ db \in {{}, {[uid |-> "21.T12995/ab1", path |-> ifile("t1")]}}
    /\ cache = IF db = {} THEN [k \in Keys |-> None]
               ELSE r_set(r_set([k \in Keys |-> None], "21.T12995/ab1", ifile("t1")),
                          ifile("t1"), "21.T12995/ab1")
    /\ uo = IdleUo
    /\ rt = IdleRt
    /\ ostore = NoCloud
    /\ dt = IdleDt
    /\ stage \in [BatchIds -> BatchStates]
    /\ odirs \in {f \in [OrderIds -> UNION {OrderStates(o) : o \in OrderIds}] :
                      \A o \in OrderIds : f[o] \in OrderStates(o)}
    /\ tk = NoLink

NextDelete ==
    \/ DtStart("batches", IdLists(BatchIds))
    \/ DtStart("orders", IdLists(OrderIds))
    \/ DtBatch \/ DtOrder \/ DtNotify

SpecDelete == InitDelete /\ [][NextDelete]_vars

(***************************************************************************)
(* Claims on the deletion tasks                                            *)
(***************************************************************************)
DtRecorded(id, names) ==
    \E i \in DOMAIN dt.errlist :
        /\ dt.errlist[i].subject = id
        /\ dt.errlist[i].error \in {ErrorCodes(n) : n \in names}

\* C25: a deletion task that passed its parameter checks handles every id
\* of its list in order; an id that does not exist is recorded as
\* BATCH_NOT_FOUND / ORDER_NOT_FOUND and an id whose removal failed is
\* recorded as an unexpected error.
C25_IndependentIds ==
    (dt.pc \in {"notify", "done"} /\ dt.kind \notin {"params", "session"}) =>
        /\ Len(dt.handled) = Len(dt.req.ids)
        /\ \A k \in DOMAIN dt.handled :
              /\ dt.handled[k].id = dt.req.ids[k]
              /\ dt.handled[k].outcome = "not_found" =>
                    DtRecorded(dt.handled[k].id,
                               {"BATCH_NOT_FOUND", "ORDER_NOT_FOUND"})
              /\ dt.handled[k].outcome \in {"failed", "left"} =>
                    DtRecorded(dt.handled[k].id, {"UNEXPECTED_ERROR"})

\* C26: once delete_batches has handled a batch id without a failure of
\* the removal, the batch has no collection and no staging directory if it
\* had either before, and its readiness is MISSING.
C26_BatchGone ==
    (dt.pc # "idle" /\ dt.task = "batches") =>
        \A k \in DOMAIN dt.handled :
            LET h == dt.handled[k]
                b == stage[h.id]
            IN (h.outcome \in {"removed", "not_found"}
                   /\ (h.before.coll \/ h.before.local)) =>
                  /\ ~b.coll /\ ~b.local
                  /\ get_batch_status(b.coll, {}, b.local, {}).status = MISSING_BATCH
                  /\ fs_get_batch_status(b.local, {}).status = MISSING_BATCH

\* C27: once delete_orders has removed an existing order, the order has no
\* collection in the storage backend and no local directory.
C27_OrderGone ==
    (dt.pc # "idle" /\ dt.task = "orders") =>
        \A k \in DOMAIN dt.handled :
            LET h == dt.handled[k]
            IN (h.outcome = "removed" /\ h.before.dir) =>
                  /\ ~odirs[h.id].dir
                  /\ ~odirs[h.id].coll /\ odirs[h.id].objects = {}

\* C28: no step of a deletion task changes the PID cache or the DataObject
\* records.
C28_CacheAndRecordsKept ==
    [][dt' # dt => (cache' = cache /\ db' = db)]_vars

\* a deletion that removed something while cache entries and records exist
C28_Witness ==
    /\ dt.pc = "done"
    /\ \E k \in DOMAIN dt.handled : dt.handled[k].outcome = "removed"
    /\ db # {}
    /\ cache["21.T12995/ab1"] = ifile("t1")

\* C29: a deletion task without its list ends with MISSING_BATCHES_PARAMETER
\* / MISSING_ORDERS_PARAMETER, one with an empty list with
\* EMPTY_BATCHES_PARAMETER / EMPTY_ORDERS_PARAMETER; it has handled no id
\* and the step has left every batch and every order as it was.
C29_ParameterAborts ==
    /\ []((dt.pc # "idle" /\ ~dt.req.present) =>
             /\ dt.pc = "done" /\ dt.ret \in {"Failed", "raised"}
             /\ dt.handled = <<>>
             /\ dt.notified = <<ErrorCodes(IF dt.task = "batches"
                                           THEN "MISSING_BATCHES_PARAMETER"
                                           ELSE "MISSING_ORDERS_PARAMETER")>>)
    /\ []((dt.pc # "idle" /\ dt.req.present /\ dt.req.ids = <<>>) =>
             /\ dt.pc = "done" /\ dt.ret \in {"Failed", "raised"}
             /\ dt.handled = <<>>
             /\ dt.notified = <<ErrorCodes(IF dt.task = "batches"
                                           THEN "EMPTY_BATCHES_PARAMETER"
                                           ELSE "EMPTY_ORDERS_PARAMETER")>>)
    /\ [][(dt'.pc = "done" /\ dt'.kind = "params") =>
             UNCHANGED <<stage, odirs>>]_vars

C29_Witness ==
    /\ dt.pc = "done" /\ dt.task = "orders" /\ dt.ret = "Failed"
    /\ dt.req.present /\ dt.req.ids = <<>>
    /\ dt.notified = <<ErrorCodes("EMPTY_ORDERS_PARAMETER")>>
    /\ \E o \in OrderIds : odirs[o].dir

(***************************************************************************)
(* Download links of an order: seed, token, PUT / GET /orders/<id>,        *)
(* GET /orders/<id>/download/<ftype>/c/<code>                              *)
(***************************************************************************)
\* the characters of an order id; every other piece of a name is kept whole
IdChars(order_id) == IF order_id = "o1" THEN <<"o", "1">> ELSE <<"a", ":", "b">>

chars(piece) == IF piece \in OrderIds THEN IdChars(piece) ELSE <<piece>>

RECURSIVE flatten(_)
\* the text of a name given by its pieces
flatten(pieces) ==
    IF pieces = <<>> THEN <<>> ELSE chars(Head(pieces)) \o flatten(Tail(pieces))

\* the listings a finished order task leaves in the order directory
FileSets(order_id) ==
    {{get_order_zip_file_name(order_id, FALSE, None),
      get_order_zip_file_name(order_id, FALSE, "1")},
     {get_order_zip_file_name(order_id, TRUE, None)}}

\* os.path.join(order_id, zip_file_name)
relative_path(order_id, name) == flatten(<<order_id, "/">> \o name)

\* Fernet(secret).encrypt(plain) and a code that is no Fernet token
fernet_encrypt(plain) == [fernet |-> plain]
Garbage == [fernet |-> <<"?">>]
NoToken == [fernet |-> <<>>]

\* the seed file is rewritten at every call
import_secret_regenerate_mut(d, order_id) ==
    [seed |-> Seed(order_id, d.gen + 1),
     dir |-> [d EXCEPT !.seed = Seed(order_id, d.gen + 1), !.gen = @ + 1]]

\* get_seed: import_secret(<order directory>/.seed)[0:12] reads the seed
\* file, or writes a new one when there is none
import_secret(d, order_id) ==
    IF d.seed # None THEN [seed |-> d.seed, dir |-> d]
    ELSE [seed |-> Seed(order_id, d.gen + 1),
          dir |-> [d EXCEPT !.seed = Seed(order_id, d.gen + 1), !.gen = @ + 1]]

\* get_token, lines 305-312, with the seed in force
token_of(seed, order_id, name) ==
    fernet_encrypt(<<seed, ":">> \o relative_path(order_id, name))

RECURSIVE split(_, _)
\* str.split(sep)
split(text, sep) ==
    IF \A i \in DOMAIN text : text[i] # sep THEN <<text>>
    ELSE LET i == CHOOSE j \in DOMAIN text :
                     text[j] = sep /\ \A k \in 1..(j - 1) : text[k] # sep
         IN <<SubSeq(text, 1, i - 1)>> \o split(SubSeq(text, i + 1, Len(text)), sep)

\* Path(text).parent.name
parent_name(text) ==
    LET parts == split(text, "/")
    IN IF Len(parts) < 2 THEN <<>> ELSE parts[Len(parts) - 1]

\* the seed of the directory that holds all the orders: a value of its own
RootSeed == "root"

\* the seed comparison is left out
read_token_no_seed_check_mut(code, dirs) ==
    IF code \in {Garbage, NoToken}
    THEN [status |-> "raise", path |-> <<>>, dirs |-> dirs]
    ELSE LET plain == split(code.fernet, ":")
             zip_filepath == plain[2]
             name == parent_name(zip_filepath)
             known == {o \in OrderIds : IdChars(o) = name}
         IN IF known = {}
            THEN (IF name = <<>>
                  THEN [status |-> "ok", path |-> zip_filepath, dirs |-> dirs]
                  ELSE [status |-> "raise", path |-> <<>>, dirs |-> dirs])
            ELSE LET order_id == CHOOSE o \in known : TRUE
                 IN IF ~dirs[order_id].dir
                    THEN [status |-> "raise", path |-> <<>>, dirs |-> dirs]
                    ELSE LET sec == import_secret(dirs[order_id], order_id)
                             after == [dirs EXCEPT ![order_id] = sec.dir]
                         IN [status |-> "ok", path |-> zip_filepath, dirs |-> after]

\* read_token, lines 314-335: the path inside the code, or an exception;
\* reading the expected seed writes a seed file when the order has none
read_token(code, dirs) ==
    IF code \in {Garbage, NoToken}
    THEN [status |-> "raise", path |-> <<>>, dirs |-> dirs]
    ELSE LET plain == split(code.fernet, ":")
             seed == plain[1]
             zip_filepath == plain[2]
             name == parent_name(zip_filepath)
             known == {o \in OrderIds : IdChars(o) = name}
         IN IF known = {}
            THEN (IF name = <<>> /\ seed = <<RootSeed>>
                  THEN [status |-> "ok", path |-> zip_filepath, dirs |-> dirs]
                  ELSE [status |-> "raise", path |-> <<>>, dirs |-> dirs])
            ELSE LET order_id == CHOOSE o \in known : TRUE
                 IN IF ~dirs[order_id].dir
                    THEN [status |-> "raise", path |-> <<>>, dirs |-> dirs]
                    ELSE LET sec == import_secret(dirs[order_id], order_id)
                             after == [dirs EXCEPT ![order_id] = sec.dir]
                         IN IF seed # <<sec.seed>>
                            THEN [status |-> "raise", path |-> <<>>, dirs |-> after]
                            ELSE [status |-> "ok", path |-> zip_filepath,
                                  dirs |-> after]

\* the <ftype> of a download url: a flag and an index
Ftypes == {<<"0">>, <<"0", "0">>, <<"1", "0">>, <<"0", "1">>, <<"2", "0">>,
           <<"0", "x">>}

\* get_filename_from_type, basket.py lines 54-77
get_filename_from_type(order_id, ftype) ==
    IF Len(ftype) < 2 THEN [kind |-> "none", name |-> <<>>]
    ELSE IF ftype[1] \notin {"0", "1"} THEN [kind |-> "none", name |-> <<>>]
    ELSE IF ftype[2] \notin {"0", "1", "2"} THEN [kind |-> "crash", name |-> <<>>]
    ELSE [kind |-> "name",
          name |-> get_order_zip_file_name(order_id, ftype[1] = "1",
                                           IF ftype[2] = "0" THEN None ELSE ftype[2])]

\* the ftype of a link, get_download lines 366-374
ftype_of(restricted, index) ==
    <<IF restricted THEN "1" ELSE "0", IF index = None THEN "0" ELSE index>>

\* the codes a client can present: no token at all, or a token made with
\* a seed one of the orders has had
Codes ==
    {Garbage} \cup
    UNION {{token_of(Seed(o, n), o, name) :
               n \in 1..odirs[o].gen, name \in UNION FileSets(o)} : o \in OrderIds}

\* the code was made for this order and this archive
made_for(code, order_id, name) ==
    \E n \in 1..MaxSeeds : code = token_of(Seed(order_id, n), order_id, name)

\* the code was made with a seed that is not the seed of its order now
made_with_old_seed(code, dirs) ==
    \E o \in OrderIds, n \in 1..MaxSeeds : \E name \in UNION FileSets(o) :
        /\ code = token_of(Seed(o, n), o, name)
        /\ n <= dirs[o].gen
        /\ dirs[o].seed # Seed(o, n)

\* an answer of the order endpoints; for a download, where the handler
\* ended and what the code presented was
Answer(op, order_id, status) ==
    [op |-> op, order |-> order_id, status |-> status, served |-> <<>>,
     urls |-> {}, reused |-> FALSE, step |-> None, stale |-> FALSE,
     own |-> FALSE]

OthersUnchangedTk ==
    UNCHANGED <<production, icoll, ifiles, ldir, lfiles, bs, dl, mp, cloud,
                handles, cache, db, uo, rt, ostore, dt, stage>>

SeedsBounded == \A o \in OrderIds : odirs'[o].gen <= MaxSeeds

\* BasketEndpoint.post, lines 238-304: the order directory is created
OrderPost(order_id) ==
    /\ odirs' = [odirs EXCEPT ![order_id].dir = TRUE]
    /\ tk' = Answer("post", order_id, "200")
    /\ OthersUnchangedTk

\* unrestricted_order lines 183-350 (and the copy of a restricted
\* archive): the archives of the order appear in its directory
OrderFilled(order_id) ==
    /\ odirs[order_id].dir /\ odirs[order_id].files = {}
    /\ \E files \in FileSets(order_id) :
          odirs' = [odirs EXCEPT ![order_id].files = files]
    /\ UNCHANGED tk
    /\ OthersUnchangedTk

\* the archives BasketEndpoint.put finds for one label, lines 337-395
found_names(order_id, files, restricted) ==
    IF get_order_zip_file_name(order_id, restricted, "1") \in files
    THEN {get_order_zip_file_name(order_id, restricted, index) :
             index \in {"1", "2"}} \cap files
    ELSE {get_order_zip_file_name(order_id, restricted, None)} \cap files

\* the index written in an archive name, None without one
index_of(name) == IF Len(name) = 6 THEN name[5] ELSE None

\* a link: get_download, lines 337-403
link(order_id, name, seed) ==
    [name |-> name,
     ftype |-> ftype_of(name[4] = "restricted", index_of(name)),
     token |-> token_of(seed, order_id, name),
     seed |-> seed]

\* BasketEndpoint.put, lines 312-403: links for the archives of the order
OrderPut(order_id) ==
    /\ LET d == odirs[order_id]
           found == found_names(order_id, d.files, FALSE)
                      \cup found_names(order_id, d.files, TRUE)
       IN IF ~d.dir
          THEN /\ tk' = Answer("put", order_id, "500")
               /\ UNCHANGED odirs
          ELSE IF found = {}
          THEN /\ tk' = Answer("put", order_id, "404")
               /\ UNCHANGED odirs
          ELSE LET sec == import_secret(d, order_id)
               IN /\ odirs' = [odirs EXCEPT ![order_id] = sec.dir]
                  /\ tk' = [Answer("put", order_id, "200") EXCEPT
                               !.urls = {link(order_id, name, sec.seed) :
                                            name \in found},
                               !.reused = (d.seed = sec.seed)]
    /\ SeedsBounded
    /\ OthersUnchangedTk

\* name.strip(f"order_{order_id}_{label}").strip(".zip"), lines 207-213:
\* the characters of the prefix are stripped, an index among them too
list_index(order_id, name) ==
    LET index == index_of(name)
    IN IF index = None THEN None
       ELSE IF \E i \in DOMAIN IdChars(order_id) : IdChars(order_id)[i] = index
       THEN None
       ELSE index

\* BasketEndpoint.get, lines 155-229: the listing of the order
OrderList(order_id) ==
    /\ LET d == odirs[order_id]
           u == get_order_zip_file_name(order_id, FALSE, None)
           r == get_order_zip_file_name(order_id, TRUE, None)
           ls == (d.files
                    \ (IF get_order_zip_file_name(order_id, FALSE, "1") \in d.files
                       THEN {u} ELSE {}))
                    \ (IF get_order_zip_file_name(order_id, TRUE, "1") \in d.files
                       THEN {r} ELSE {})
           wanted(name) ==
               get_order_zip_file_name(order_id, name[4] = "restricted",
                                       list_index(order_id, name))
       IN IF ~d.dir
          THEN /\ tk' = Answer("list", order_id, "404")
               /\ UNCHANGED odirs
          ELSE IF d.seed = None
          THEN /\ tk' = [Answer("list", order_id, "200") EXCEPT
                            !.urls = {[name |-> name, ftype |-> <<>>,
                                       token |-> NoToken, seed |-> None] :
                                         name \in ls}]
               /\ UNCHANGED odirs
          ELSE IF \E name \in ls : wanted(name) # name
          THEN /\ tk' = Answer("list", order_id, "500")
               /\ UNCHANGED odirs
          ELSE /\ tk' = [Answer("list", order_id, "200") EXCEPT
                            !.urls = {link(order_id, name, d.seed) : name \in ls},
                            !.reused = TRUE]
               /\ UNCHANGED odirs
    /\ OthersUnchangedTk

\* the requested path is not compared with the path of the code
download_any_path_mut(expected_filepath, filepath_from_token) == TRUE

\* basket.py lines 119-127
path_matches(expected_filepath, filepath_from_token) ==
    expected_filepath = filepath_from_token

\* DownloadBasketEndpoint.get, lines 87-142
Download(order_id, ftype, code) ==
    /\ LET d == odirs[order_id]
           asked == get_filename_from_type(order_id, ftype)
           answer(status, step) ==
               [Answer("download", order_id, status) EXCEPT !.step = step]
       IN IF asked.kind = "none"
          THEN tk' = answer("400", "ftype") /\ UNCHANGED odirs
          ELSE IF asked.kind = "crash"
          THEN tk' = answer("500", "ftype") /\ UNCHANGED odirs
          ELSE IF asked.name \notin d.files
          THEN tk' = answer("404", "file") /\ UNCHANGED odirs
          ELSE LET read == read_token(code, odirs)
                   seen(a) == [a EXCEPT
                                  !.stale = made_with_old_seed(code, read.dirs),
                                  !.own = made_for(code, order_id, asked.name)]
               IN /\ odirs' = read.dirs
                  /\ IF read.status = "raise"
                     THEN tk' = seen(answer("401", "token"))
                     ELSE IF ~path_matches(relative_path(order_id, asked.name),
                                           read.path)
                     THEN tk' = seen(answer("404", "path"))
                     ELSE tk' = seen([answer("200", "sent") EXCEPT
                                         !.served = asked.name])
    /\ SeedsBounded
    /\ OthersUnchangedTk

InitTokens ==
    /\ production = FALSE
    /\ icoll = FALSE
    /\ ifiles = {}
    /\ ldir = FALSE
    /\ lfiles = {}
    /\ bs = NoAnswer
    /\ dl = IdleDl
    /\ mp = IdleMp
    /\ cloud = NoCloud
    /\ handles = NoCloud
    /\ cache = NoCloud
    /\ db = {}
    /\ uo = IdleUo
    /\ rt = IdleRt
    /\ ostore = NoCloud
    /\ dt = IdleDt
    /\ stage = NoCloud
    /\ odirs = [o \in OrderIds |->
                  [coll |-> FALSE, objects |-> {}, dir |-> FALSE, seed |-> None,
                   files |-> {}, gen |-> 0]]
    /\ tk = NoLink

NextTokens ==
    \/ \E o \in OrderIds :
          \/ OrderPost(o) \/ OrderFilled(o) \/ OrderPut(o) \/ OrderList(o)
          \/ \E ftype \in Ftypes, code \in Codes : Download(o, ftype, code)
    \/ DtStart("orders", {<<o>> : o \in OrderIds}) \/ DtOrder \/ DtNotify

SpecTokens == InitTokens /\ [][NextTokens]_vars

(***************************************************************************)
(* Order requests and the tasks they send: POST /orders                    *)
(***************************************************************************)
\* the workers: per order, the unrestricted_order tasks sent and not yet
\* finished
NoTasks == [pc |-> "pool", running |-> [o \in OrderIds |-> 0]]

\* BasketEndpoint.post, lines 283-304: the answer, and whether
\* unrestricted_order is sent
basket_post(order_id, exists, running, has_pids) ==
    IF exists THEN [status |-> "exists", task |-> FALSE]
    ELSE IF has_pids THEN [status |-> "async", task |-> TRUE]
    ELSE [status |-> "enabled", task |-> FALSE]

\* BasketEndpoint.post, lines 238-304, for a request that names the order
BasketPost(order_id) ==
    /\ \E has_pids \in BOOLEAN :
          LET zip == get_order_zip_file_name(order_id, FALSE, None)
              out == basket_post(order_id, zip \in odirs[order_id].files,
                                 uo.running[order_id], has_pids)
          IN /\ out.task => uo.running[order_id] < MaxTasks
             /\ odirs' = [odirs EXCEPT ![order_id].dir = TRUE]
             /\ uo' = IF out.task
                      THEN [uo EXCEPT !.running[order_id] = @ + 1]
                      ELSE uo
             /\ tk' = [op |-> "order", order |-> order_id,
                       status |-> out.status, task |-> out.task,
                       had_zip |-> zip \in odirs[order_id].files,
                       was_running |-> uo.running[order_id]]
    /\ UNCHANGED <<production, icoll, ifiles, ldir, lfiles, bs, dl, mp, cloud,
                   handles, cache, db, rt, ostore, dt, stage>>

\* unrestricted_order, lines 176-189 and 352-406: a task of the order
\* ends, with the archive in the order directory when it copied a file
TaskEnds(order_id) ==
    /\ uo.running[order_id] > 0
    /\ uo' = [uo EXCEPT !.running[order_id] = @ - 1]
    /\ \E built \in BOOLEAN :
          odirs' = [odirs EXCEPT ![order_id].files =
                       IF built
                       THEN @ \cup {get_order_zip_file_name(order_id, FALSE, None)}
                       ELSE @]
    /\ UNCHANGED tk
    /\ UNCHANGED <<production, icoll, ifiles, ldir, lfiles, bs, dl, mp, cloud,
                   handles, cache, db, rt, ostore, dt, stage>>

InitOrderPost ==
    /\ production \in BOOLEAN
    /\ icoll = FALSE
    /\ ifiles = {}
    /\ ldir = FALSE
    /\ lfiles = {}
    /\ bs = NoAnswer
    /\ dl = IdleDl
    /\ mp = IdleMp
    /\ cloud = NoCloud
    /\ handles = NoCloud
    /\ cache = NoCloud
    /\ db = {}
    /\ uo = NoTasks
    /\ rt = IdleRt
    /\ ostore = NoCloud
    /\ dt = IdleDt
    /\ stage = NoCloud
    /\ odirs = [o \in OrderIds |->
                  [coll |-> FALSE, objects |-> {}, dir |-> FALSE, seed |-> None,
                   files |-> {}, gen |-> 0]]
    /\ tk = NoLink

NextOrderPost == \E o \in OrderIds : BasketPost(o) \/ TaskEnds(o)

SpecOrderPost == InitOrderPost /\ [][NextOrderPost]_vars

(***************************************************************************)
(* Claims on seeds and tokens                                              *)
(***************************************************************************)
\* C21: while the seed of the order is the one a link was made with,
\* read_token accepts the token of the link and returns the relative path
\* order_id/zip_name the token was issued for.
C21_TokenRoundTrip ==
    (tk.op = "put" /\ tk.status = "200") =>
        \A u \in tk.urls :
            odirs[tk.order].seed = u.seed =>
                LET read == read_token(u.token, odirs)
                IN /\ read.status = "ok"
                   /\ read.path = relative_path(tk.order, u.name)

\* C22: a download with a token made under an earlier seed of its order is
\* never served; when the request reaches the token check it is answered
\* 401, whether or not the token was made for the requested archive.
C22_OldSeedRejected ==
    (tk.op = "download" /\ tk.stale) =>
        /\ tk.status # "200"
        /\ tk.step \notin {"ftype", "file"} => tk.status = "401"

\* the order was removed and made again, and a token of the first seed,
\* made for the requested archive, is refused
C22_Witness ==
    /\ tk.op = "download" /\ tk.stale /\ tk.own /\ tk.status = "401"
    /\ odirs[tk.order].gen = 2
    /\ odirs[tk.order].seed = Seed(tk.order, 2)

\* C23: a download is served only with a token made for the requested
\* order and archive and not under an earlier seed of the order; what is
\* served is an archive of the requested order.
C23_ServedOnlyOwnArchive ==
    (tk.op = "download" /\ tk.status = "200") =>
        /\ tk.own /\ ~tk.stale
        /\ tk.served \in OrderNames(tk.order)

\* an archive is served from an order directory that holds two
C23_Witness ==
    /\ tk.op = "download" /\ tk.status = "200" /\ tk.own
    /\ Cardinality(odirs[tk.order].files) = 2

\* C24: once an order has a seed, no request for links, listing, download
\* or order preparation changes it; only the deletion task does.
C24_SeedKept ==
    [][dt' = dt =>
         \A o \in OrderIds : odirs[o].seed # None => odirs'[o].seed = odirs[o].seed]_vars

\* links are issued again with the seed the order already had
C24_Witness ==
    /\ tk.op = "put" /\ tk.status = "200" /\ tk.reused /\ tk.urls # {}
    /\ \A u \in tk.urls : read_token(u.token, odirs).status = "ok"

(***************************************************************************)
(* Claim on the failure of the outbound notification                       *)
(***************************************************************************)
\* C30: a run of move_to_production whose notification was attempted ends
\* as it would have ended with a successful notification, whatever
\* requests.post did (answered 200, answered another status, or raised):
\* after relaying the result it returns "ok" in state COMPLETED; after
\* notifying an error it returns "Failed" in state FAILED with that error.
C30_NotificationFailureHidden ==
    (mp.pc = "done" /\ mp.posts # <<>>) =>
        IF mp.posts[1].code = "result"
        THEN mp.ret = "ok" /\ mp.state = "COMPLETED"
        ELSE /\ mp.ret = "Failed" /\ mp.state = "FAILED"
             /\ mp.errors = <<mp.posts[1].code>>

(***************************************************************************)
(* Claims on the relay of the outcome                                      *)
(***************************************************************************)
\* C31: a run of download_batch whose request carries the backdoor flag, or
\* that runs outside production, makes no POST to the external endpoint,
\* whether it relays its result or notifies an error.
C31_NoPostWhenSuppressed ==
    (dl.pc # "idle" /\ (dl.req.backdoor \/ ~production)) => dl.posts = <<>>

C31_Witness ==
    /\ production /\ dl.pc = "done" /\ dl.req.backdoor
    /\ dl.ret = "Failed" /\ dl.notified # <<>> /\ dl.posts = <<>>

\* C32: a run of move_to_production that has ended has called the relay:
\* it returned "ok" after ext_api.post, or it went through notify_error.
C32_OutcomeRelayed ==
    mp.pc = "done" => (mp.ret = "ok" \/ mp.notified # <<>>)

(***************************************************************************)
(* Claims on the submission of an ingestion request                        *)
(***************************************************************************)
\* the request was accepted for a batch that held no file before it
FreshSubmission ==
    /\ bs.variant = "post" /\ bs.out.task
    /\ bs.in.ilist = {} /\ bs.in.llist = {}

\* C33: an accepted ingestion request returns with its task still waiting
\* in the queue; for a batch that held no file, the readiness is then
\* NOT_FILLED with an empty file list, and once the task has returned
\* COMPLETED it is ENABLED with exactly one file, the requested archive.
C33_SubmitThenEnabled ==
    /\ [][(bs' # bs /\ bs'.variant = "post" /\ bs'.out.task) =>
             (dl'.pc = "params" /\ dl'.steps = <<>>)]_vars
    /\ [](FreshSubmission =>
             LET st == get_batch_status(icoll, ifiles, ldir, lfiles)
             IN /\ (dl.pc = "params") =>
                       (st.status = NOT_FILLED_BATCH /\ st.files = {})
                /\ (dl.pc = "done" /\ dl.ret = "COMPLETED") =>
                       (st.status = ENABLED_BATCH
                          /\ st.files = {dl.req.file_name}))

C33_Witness ==
    /\ FreshSubmission /\ ~bs.in.coll /\ ~bs.in.local
    /\ dl.pc = "done" /\ dl.ret = "COMPLETED"
    /\ get_batch_status(icoll, ifiles, ldir, lfiles).status = ENABLED_BATCH

\* C39: an ingestion request that fails to create the staging directory
\* sends no task and leaves the batch collection as it was before the
\* request: absent if it was absent, kept with its content if it existed.
C39_FailedSubmitRollsBack ==
    (bs.variant = "post" /\ bs.out.code = "500") =>
        /\ ~bs.out.task
        /\ icoll = bs.in.coll
        /\ ifiles = bs.in.ilist

(***************************************************************************)
(* Claim on the file type of a download                                    *)
(***************************************************************************)
\* C34: a download that ends at the check of its file type, before the
\* archive is looked up and the token is read, is answered 400; only
\* file types made of a flag 0 or 1 and a number pass the check.
C34_BadFtypeIs400 ==
    /\ (tk.op = "download" /\ tk.step = "ftype") => tk.status = "400"
    /\ (tk.op = "download" /\ tk.status = "400") => tk.step = "ftype"

(***************************************************************************)
(* Claim on the polled states of a run                                     *)
(***************************************************************************)
\* C35: no step of download_restricted_order reports FAILED once the run
\* has reported COMPLETED. A task at "completed" is at the statement that
\* reports COMPLETED (line 443), so a step from there reports it first.
C35_CompletedThenNeverFailed ==
    [][\A i \in Tasks :
          (rt'[i].state = "FAILED" /\ rt[i].state # "FAILED") =>
              (rt[i].state # "COMPLETED" /\ rt[i].pc # "completed")]_vars

(***************************************************************************)
(* Claim on the time bounds                                                *)
(***************************************************************************)
\* C36: between two steps of delete_batches, and when it relays and
\* returns, no timer armed by start_timeout is still armed.
C36_TimersDisarmed ==
    (dt.pc # "idle" /\ dt.task = "batches") => ~dt.timer

(***************************************************************************)
(* Claims on the counts an unrestricted order reports                      *)
(***************************************************************************)
\* C37: the zipfile_count relayed by a finished unrestricted order is 1
\* when the archive was not split and the number of parts delivered in
\* the order directory when it was.
C37_ZipfileCount ==
    (uo.pc = "done" /\ uo.ret = "ok") =>
        uo.payload.zipfile_count =
            (IF SplitParts = {} THEN 1 ELSE Cardinality(SplitParts))

\* no file of the order failed to be copied
AllCopied ==
    \A j \in 1..Len(uo.errlist) :
        uo.errlist[j].error # ErrorCodes("UNABLE_TO_DOWNLOAD_FILE")

\* the PIDs of the order were resolved to paths that all differ
DistinctPaths ==
    \A j, k \in 1..Len(uo.files) : j # k => uo.files[j].path # uo.files[k].path

\* C38: when every resolved file was copied, the archive of a finished
\* unrestricted order has one entry for each resolved PID and file_count
\* is the number of its entries, also when two of the resolved paths have
\* the same file name in different collections.
C38_EntryPerPid ==
    (uo.pc = "done" /\ uo.ret = "ok" /\ AllCopied /\ DistinctPaths) =>
        \A w \in Whole :
            /\ Cardinality(w.entries) = Len(uo.files)
            /\ uo.payload.file_count = Cardinality(w.entries)

(***************************************************************************)
(* Claim on repeated order requests                                        *)
(***************************************************************************)
\* C40: an order never has two unrestricted_order tasks at work, and a
\* request for an order whose archive exists, or whose task is still
\* running, sends no task; with the archive present it answers "exists".
C40_OneBuilder ==
    /\ \A o \in OrderIds : uo.running[o] <= 1
    /\ tk.op = "order" =>
          /\ tk.had_zip => (tk.status = "exists" /\ ~tk.task)
          /\ tk.was_running > 0 => ~tk.task

====
